---- MODULE Spec2Model ----
(***************************************************************************)
(* A state-machine model of the crypto-advisor chatbot's query pipeline:   *)
(*   - utils/classifier.py     classify_query                              *)
(*   - chains/query_router.py  QueryRouter.route_query and its handlers    *)
(*   - chains/direct_chain.py  process_direct_query                        *)
(*   - chains/rag_chain.py     process_rag_query                           *)
(*   - knowledge_base/retriever.py  reciprocal_rank_fusion and             *)
(*                                  get_relevant_documents_with_fusion     *)
(*   - utils/tools.py          get_crypto_signals and its indicators       *)
(*   - frontend/streamlit_ui.py  render_chat_interface, the chat input     *)
(* Texts are sequences of one-character strings, so that trimming and      *)
(* lower-casing are computed, not assumed.                                 *)
(***************************************************************************)
EXTENDS Integers, Sequences, FiniteSets, TLC

VARIABLES
    \* ---- classify_query, run on its own (SpecClassifier) ----
    cq_text,        \* the query_text argument
    cq_pc,          \* "start" | "invoke" | "normalize" | "returned" | "raised"
    cq_raw,         \* what chain.invoke returned (before .strip().lower())
    cq_calls,       \* number of calls made to the classification model
    cq_result,      \* the returned label
    \* ---- the QueryRouter instance ----
    last_retrieved_docs,    \* self.last_retrieved_docs
    last_tool_args,         \* self._last_tool_args (has = FALSE: attribute not set)
    \* ---- one route_query call in progress ----
    pc,             \* position in route_query and its handlers
    frame,          \* the locals of route_query and of the handler it runs
    log,            \* the collaborator calls made by this call, in order
    \* ---- reciprocal_rank_fusion, run on its own (SpecFusion) ----
    results_list,   \* the argument: a list of ranked lists of documents
    rrf_pc,         \* "idle" | "start" | "scored" | "sorted" | "returned"
    doc_scores,     \* the dict content -> score, in insertion order
    scored_results, \* the (score, key) pairs, sorted
    reranked_docs,  \* the returned list
    \* ---- get_relevant_documents_with_fusion, run on its own (SpecRetrieval) ----
    ret_pc,         \* "idle" | "start" | "get_retriever" | "loop" | "except" | "returned"
    ret_top_k,      \* the top_k argument
    query_variations,   \* the question and its paraphrases
    all_results,    \* the result lists gathered so far
    retriever_calls,    \* the queries put to the retriever, with the k asked for
    ret_value,      \* the returned list
    ret_error,      \* what failed, "" if nothing did
    \* ---- get_crypto_signals, run on its own (SpecSignals) ----
    sig_pc,         \* "idle" | "start" | "fetched" | "indicators" | "rules" | "format"
                    \* | "except" | "returned" | "raised"
    sig_symbol,     \* the symbol argument
    sig_data,       \* response.json(): prices and total_volumes
    df,             \* the frame: its length, its columns, its last two rows
    signals,        \* the report being built
    sig_error,      \* str(e) of the exception caught
    sig_result,     \* what get_crypto_signals returned
    \* ---- two route_query calls at once on the one QueryRouter (SpecConcurrent) ----
    cc_pc,          \* per call: "idle" | "start" | "kb_rag" | "rag_invoke" | "footer"
                    \* | "returned" | "raised"
    cc_frame,       \* per call: its locals docs, source, footer
    \* ---- the chat input of one UI session (SpecUI) ----
    ui_pc,          \* "idle" | "waiting" (for a prompt) | "routing"
    ui_now,         \* the clock read by time.time(), in seconds
    session_state,  \* st.session_state: messages, and last_requests once created
    last_messages,  \* the local handed to router.route_query
    router_inputs,  \* the message lists handed to the router, in order
    stored_chats,   \* the message lists written by update_chat_messages, in order
    ui_log          \* the prompts submitted: time, text, accepted or not

classVars  == <<cq_text, cq_pc, cq_raw, cq_calls, cq_result>>
instVars   == <<last_retrieved_docs, last_tool_args>>
callVars   == <<pc, frame, log>>
routerVars == <<instVars, callVars>>
fusionVars == <<results_list, rrf_pc, doc_scores, scored_results, reranked_docs>>
retrVars   == <<ret_pc, ret_top_k, query_variations, all_results, retriever_calls,
                ret_value, ret_error>>
sigVars    == <<sig_pc, sig_symbol, sig_data, df, signals, sig_error, sig_result>>
concVars   == <<cc_pc, cc_frame>>
uiVars     == <<ui_pc, ui_now, session_state, last_messages, router_inputs,
                stored_chats, ui_log>>
\* what an action of one component leaves alone in the others
offClassifier == <<routerVars, fusionVars, retrVars, sigVars, concVars, uiVars>>
offRouter     == <<classVars, fusionVars, retrVars, sigVars, concVars, uiVars>>
offFusion     == <<classVars, routerVars, retrVars, sigVars, concVars, uiVars>>
offRetrieval  == <<classVars, routerVars, fusionVars, sigVars, concVars, uiVars>>
offSignals    == <<classVars, routerVars, fusionVars, retrVars, concVars, uiVars>>
offConcurrent == <<classVars, callVars, last_tool_args, fusionVars, retrVars, sigVars,
                   uiVars>>
offUI         == <<classVars, routerVars, fusionVars, retrVars, sigVars, concVars>>
vars       == <<classVars, routerVars, fusionVars, retrVars, sigVars, concVars, uiVars>>

-----------------------------------------------------------------------------
(* Bounds of the model *)

\* longest query text handed to classify_query on its own
MaxTextLen == 5
\* longest history (messages before the latest one) of an input conversation
MaxHistory == 1
\* most ranked lists handed to reciprocal_rank_fusion, and the longest of them
FuseMaxLists == 3
FuseMaxLen == 2
\* longest answer of the paraphrasing model, in characters
MaxRawLen == 3
\* largest top_k asked of get_relevant_documents, and most documents the store holds
\* for one query
MaxTopK == 2
MaxHits == 2
\* prompts submitted in one UI session, the latest time on its clock, and the
\* seconds between two readings of the clock
MaxPrompts == 7
MaxClock == 60
TickSeconds == 20
\* calls of one UI session that end in an exception (of the router, of the store)
MaxFailures == 2
\* longest price history fetched by get_crypto_signals
MaxPoints == 51

-----------------------------------------------------------------------------
(* Text: str.strip, str.lower, set(str) *)

LowerAlpha == <<"a","b","c","d","e","f","g","h","i","j","k","l","m",
                "n","o","p","q","r","s","t","u","v","w","x","y","z">>
UpperAlpha == <<"A","B","C","D","E","F","G","H","I","J","K","L","M",
                "N","O","P","Q","R","S","T","U","V","W","X","Y","Z">>

IsSpace(c) == c \in {" ", "\n", "\t"}

LowerChar(c) ==
    IF \E i \in 1..Len(UpperAlpha) : UpperAlpha[i] = c
    THEN LowerAlpha[CHOOSE i \in 1..Len(UpperAlpha) : UpperAlpha[i] = c]
    ELSE c

UpperChar(c) ==
    IF \E i \in 1..Len(LowerAlpha) : LowerAlpha[i] = c
    THEN UpperAlpha[CHOOSE i \in 1..Len(LowerAlpha) : LowerAlpha[i] = c]
    ELSE c

\* str.lower()
Lower(s) == [i \in 1..Len(s) |-> LowerChar(s[i])]

Upper(s) == [i \in 1..Len(s) |-> UpperChar(s[i])]

RECURSIVE LStrip(_)
LStrip(s) == IF s # <<>> /\ IsSpace(Head(s)) THEN LStrip(Tail(s)) ELSE s

RECURSIVE RStrip(_)
RStrip(s) ==
    IF s # <<>> /\ IsSpace(s[Len(s)]) THEN RStrip(SubSeq(s, 1, Len(s) - 1)) ELSE s

\* str.strip()
Strip(s) == RStrip(LStrip(s))

\* set(str)
CharSet(s) == {s[i] : i \in 1..Len(s)}

\* all sequences over S of length at most n
SeqsUpTo(S, n) == UNION {[1..k -> S] : k \in 0..n}

-----------------------------------------------------------------------------
(* utils/classifier.py: classify_query *)

KNOWLEDGE_BASE == <<"k","n","o","w","l","e","d","g","e","_","b","a","s","e">>
TOOL_CALL      == <<"t","o","o","l","_","c","a","l","l">>
DIRECT         == <<"d","i","r","e","c","t">>

valid_categories == {KNOWLEDGE_BASE, TOOL_CALL, DIRECT}

\* the early validation without its length test
EarlyDirectNoLengthTest(query_text) ==
    \/ Strip(query_text) = <<>>
    \/ Cardinality(CharSet(Lower(query_text))) <= 2

\* the early validation: TRUE when classify_query returns "direct" at once
EarlyDirect(query_text) ==
    \/ Strip(query_text) = <<>>
    \/ Cardinality(CharSet(Lower(query_text))) <= 2
    \/ Len(Strip(query_text)) < 5

\* the raw output trimmed and lower-cased, without the check against the labels
NormalizeNoFallback(raw) == Lower(Strip(raw))

\* lines 62-69: the label returned for the model's raw output
Normalize(raw) ==
    LET result == Lower(Strip(raw))
    IN  IF result \notin valid_categories THEN DIRECT ELSE result

\* query texts classify_query is run on
TextChars == {"a", "A", "b", "c", " "}
Texts == SeqsUpTo(TextChars, MaxTextLen)

\* raw outputs of the classification model: the labels and near misses, as they
\* are, upper-cased, padded with white space, or followed by a full stop
RawCores == valid_categories \cup
            { <<"k","n","o","w","l","e","d","g","e"," ","b","a","s","e">>,
              <<"t","o","o","l">>,
              <<>> }
RawOutputs ==
    UNION { { r, Upper(r) \o <<"\n">>, <<" ">> \o r \o <<" ">>, r \o <<".">> }
            : r \in RawCores }

NoText == <<>>

ClassifierIdle ==
    /\ cq_text = NoText
    /\ cq_pc = "idle"
    /\ cq_raw = NoText
    /\ cq_calls = 0
    /\ cq_result = NoText

\* lines 17-20: the early validation
ClassifyValidate ==
    /\ cq_pc = "start"
    /\ IF EarlyDirect(cq_text)
       THEN /\ cq_result' = DIRECT
            /\ cq_pc' = "returned"
       ELSE /\ cq_pc' = "invoke"
            /\ UNCHANGED cq_result
    /\ UNCHANGED <<cq_text, cq_raw, cq_calls, offClassifier>>

\* line 62: chain.invoke answers
ClassifyInvoke ==
    /\ cq_pc = "invoke"
    /\ \E raw \in RawOutputs :
        /\ cq_raw' = raw
        /\ cq_calls' = cq_calls + 1
        /\ cq_pc' = "normalize"
    /\ UNCHANGED <<cq_text, cq_result, offClassifier>>

\* line 62: chain.invoke raises
ClassifyInvokeRaises ==
    /\ cq_pc = "invoke"
    /\ cq_calls' = cq_calls + 1
    /\ cq_pc' = "raised"
    /\ UNCHANGED <<cq_text, cq_raw, cq_result, offClassifier>>

\* lines 62-69: strip, lower, validate against the three labels
ClassifyNormalize ==
    /\ cq_pc = "normalize"
    /\ cq_result' = Normalize(cq_raw)
    /\ cq_pc' = "returned"
    /\ UNCHANGED <<cq_text, cq_raw, cq_calls, offClassifier>>

-----------------------------------------------------------------------------
(* The values route_query works on *)

\* Python's None, and the truth value of a str-or-None
None == "<None>"
Truthy(x) == x \notin {None, ""}

Roles == {"user", "assistant", "system"}

EMPTY_TEXT == <<>>
BLANK_TEXT == <<" ">>
SHORT_TEXT == <<"h","i">>
LONG_TEXT  == <<"p","r","i","c","e">>
QueryTexts == {EMPTY_TEXT, BLANK_TEXT, SHORT_TEXT, LONG_TEXT}

\* earlier turns of a conversation, and its latest message (the chat page appends
\* the user's prompt last)
HistoryMessages == [role : Roles, content : {SHORT_TEXT}]
LatestMessages  == [role : {"user"}, content : QueryTexts]

\* the arguments of route_query: a str, or a non-empty list of messages
StrQuery(t)   == [type |-> "str", text |-> t, messages |-> <<>>]
ListQuery(ms) == [type |-> "list", text |-> <<>>, messages |-> ms]
Queries ==
    {StrQuery(t) : t \in QueryTexts} \cup
    {ListQuery(h \o <<m>>) : h \in SeqsUpTo(HistoryMessages, MaxHistory),
                             m \in LatestMessages}

\* metadata['source'] of a retrieved document, cut into the pieces urlparse and
\* os.path.basename tell apart: scheme, "://", netloc, path, query for a URL;
\* directory, file name for a resolved local path
RawSources ==
    { <<"https", "://", "academy.example.com", "/fomo", "?ref=1">>,
      <<"https", "://", "academy.example.com", "/fomo", "?ref=2">>,
      <<"/kb/docs/", "hodl.pdf">> }

\* retrieved documents, with and without a 'source' in their metadata
Documents ==
    {[metadata |-> [source |-> r]] : r \in RawSources} \cup
    {[metadata |-> [title |-> "Web Page"]]}
\* get_relevant_documents(query, top_k=3) returns at most top_k documents
top_k == 3
DocLists == SeqsUpTo(Documents, top_k)

\* utils/tools.py: the tool table, with each tool's parameters
TOOLS == {"get_crypto_price_gecko", "get_crypto_news_newsapi", "get_crypto_signals"}

ToolParams(name) ==
    CASE name = "get_crypto_price_gecko"  -> [all |-> {"symbol"}, required |-> {"symbol"}]
      [] name = "get_crypto_news_newsapi" -> [all |-> {"query"}, required |-> {"query"}]
      [] name = "get_crypto_signals"      ->
            [all |-> {"symbol", "days", "currency"}, required |-> {}]

\* a tool whose body lets an exception out (the other two catch all of them)
ToolMayRaise(name) == name = "get_crypto_price_gecko"

\* JSON values of tool arguments: a str or an int
StrVal(x) == [t |-> "str", s |-> x, n |-> 0]
IntVal(x) == [t |-> "int", s |-> "", n |-> x]
Item(k, v) == [k |-> k, v |-> v]

\* the "arguments" strings the function-calling model produces
RawArgs ==
    { "{}",
      "{\"symbol\": \"bitcoin\"}",
      "{\"symbol\": \"ethereum\", \"days\": 7}",
      "{\"query\": \"solana\"}",
      "[\"bitcoin\"]",
      "{\"symbol\": bitcoin" }

\* json.loads: ok = FALSE is JSONDecodeError; a dict keeps its items in order
json_loads(raw) ==
    CASE raw = "{}" ->
            [ok |-> TRUE, type |-> "dict", items |-> <<>>]
      [] raw = "{\"symbol\": \"bitcoin\"}" ->
            [ok |-> TRUE, type |-> "dict",
             items |-> <<Item("symbol", StrVal("bitcoin"))>>]
      [] raw = "{\"symbol\": \"ethereum\", \"days\": 7}" ->
            [ok |-> TRUE, type |-> "dict",
             items |-> <<Item("symbol", StrVal("ethereum")), Item("days", IntVal(7))>>]
      [] raw = "{\"query\": \"solana\"}" ->
            [ok |-> TRUE, type |-> "dict",
             items |-> <<Item("query", StrVal("solana"))>>]
      [] raw = "[\"bitcoin\"]" ->
            [ok |-> TRUE, type |-> "list", items |-> <<>>]
      [] OTHER ->
            [ok |-> FALSE, type |-> "", items |-> <<>>]

\* response.additional_kwargs["function_call"]; the model may name a function
\* that is not in the table, and may leave "arguments" out
FunctionNames == TOOLS \cup {"get_weather"}
FunctionCalls ==
    [name : FunctionNames, has_arguments : {TRUE}, arguments : RawArgs] \cup
    [name : FunctionNames, has_arguments : {FALSE}, arguments : {""}]

Keys(items) == {items[i].k : i \in 1..Len(items)}

\* tool_fn(**args) binds: args is a mapping whose keys fit the parameters
Binds(name, a) ==
    /\ a.type = "dict"
    /\ Keys(a.items) \subseteq ToolParams(name).all
    /\ ToolParams(name).required \subseteq Keys(a.items)

-----------------------------------------------------------------------------
(* chains/direct_chain.py: process_direct_query *)

StrArg(t)   == [type |-> "str", text |-> t, messages |-> <<>>]
ListArg(ms) == [type |-> "list", text |-> <<>>, messages |-> ms]

SystemMessage == [class |-> "SystemMessage", content |-> <<"c","r","y","p","t","o">>]

\* lines 27-31: user and assistant messages become chat messages, others are skipped
RECURSIVE ConvertMessages(_)
ConvertMessages(ms) ==
    IF ms = <<>> THEN <<>>
    ELSE LET msg == Head(ms)
         IN  (CASE msg.role = "user" ->
                     <<[class |-> "HumanMessage", content |-> msg.content]>>
                [] msg.role = "assistant" ->
                     <<[class |-> "AIMessage", content |-> msg.content]>>
                [] OTHER -> <<>>)
             \o ConvertMessages(Tail(ms))

\* process_direct_query(messages) where the chat model is available or not.
\* Iterating a str yields its characters, and msg["role"] on a character raises
\* TypeError; an empty str has no characters to iterate.
process_direct_query(messages, available) ==
    IF messages.type = "str" /\ Len(messages.text) > 0
    THEN [raised |-> TRUE, error |-> "TypeError", answer |-> [by |-> "nobody"]]
    ELSE LET chat == <<SystemMessage>> \o ConvertMessages(messages.messages)
         IN  IF available
             THEN [raised |-> FALSE, error |-> "",
                   answer |-> [by |-> "direct", chat |-> chat]]
             ELSE [raised |-> TRUE, error |-> "LLMError", answer |-> [by |-> "nobody"]]

\* QueryRouter._handle_direct_query
handle_direct_query(messages, available) == process_direct_query(messages, available)

\* the question alone, as a user turn
history_and_question_no_history(hist, question) ==
    ListArg(<<[role |-> "user", content |-> question]>>)

\* QueryRouter._handle_direct_query_with_history: the messages handed on
history_and_question(hist, question) ==
    ListArg(hist \o <<[role |-> "user", content |-> question]>>)

\* an entry of the log of collaborator calls
Call(callee, arg, available, raised) ==
    [callee |-> callee, arg |-> arg, available |-> available, raised |-> raised]

DirectCall(messages, available) ==
    Call("process_direct_query", messages, available,
         process_direct_query(messages, available).raised)

-----------------------------------------------------------------------------
(* chains/query_router.py: QueryRouter *)

NoFunctionCall == [name |-> None, has_arguments |-> FALSE, arguments |-> ""]
NoArgs         == [ok |-> FALSE, type |-> "", items |-> <<>>]
NoResponse     == [by |-> "nobody"]
NoTool         == [ran |-> FALSE, name |-> None, args |-> NoArgs]

\* function_called: None, a str, or the dict {"name", "parameters"}
FcNone          == [type |-> "None", value |-> None, parameters |-> <<>>]
FcStr(x)        == [type |-> "str", value |-> x, parameters |-> <<>>]
FcDict(name, p) == [type |-> "dict", value |-> name, parameters |-> p]

\* the locals at the start of a call
Frame0 ==
    [query |-> StrQuery(EMPTY_TEXT), query_text |-> EMPTY_TEXT, history |-> <<>>,
     query_type |-> NoText, classifier_raised |-> FALSE,
     docs |-> <<>>, function_call |-> NoFunctionCall, args |-> NoArgs,
     called_function |-> None, response |-> NoResponse, source |-> None,
     function_called |-> FcNone, footer |-> <<>>, tool_invoked |-> NoTool,
     error |-> ""]

\* the state after QueryRouter.__init__
RouterInit ==
    /\ last_retrieved_docs = <<>>
    /\ last_tool_args = [has |-> FALSE, value |-> NoArgs]
    /\ pc = "idle"
    /\ frame = Frame0
    /\ log = <<>>

\* lines 24-37: route_query is called; query_text and history are taken from it
RouteQueryEntry ==
    /\ pc = "idle"
    /\ \E q \in Queries :
        frame' = [Frame0 EXCEPT
                    !.query = q,
                    !.query_text = IF q.type = "str" THEN q.text
                                   ELSE q.messages[Len(q.messages)].content,
                    !.history = IF q.type = "str" THEN <<>>
                                ELSE SubSeq(q.messages, 1, Len(q.messages) - 1)]
    /\ log' = <<>>
    /\ pc' = "classify"
    /\ UNCHANGED <<instVars, offRouter>>

\* line 39: classify_query(query_text) returns a label
RouteClassify ==
    /\ pc = "classify"
    /\ IF EarlyDirect(frame.query_text)
       THEN /\ frame' = [frame EXCEPT !.query_type = DIRECT]
            /\ UNCHANGED log
       ELSE \E raw \in RawOutputs :
            /\ frame' = [frame EXCEPT !.query_type = Normalize(raw)]
            /\ log' = Append(log, Call("classification_model",
                                       StrArg(frame.query_text), TRUE, FALSE))
    /\ pc' = "dispatch"
    /\ UNCHANGED <<instVars, offRouter>>

\* line 39: classify_query(query_text) raises, outside the try of route_query
RouteClassifyRaises ==
    /\ pc = "classify"
    /\ ~EarlyDirect(frame.query_text)
    /\ frame' = [frame EXCEPT !.classifier_raised = TRUE, !.error = "LLMError"]
    /\ log' = Append(log, Call("classification_model",
                               StrArg(frame.query_text), FALSE, TRUE))
    /\ pc' = "raised"
    /\ UNCHANGED <<instVars, offRouter>>

\* a handler line "response = process_direct_query(query_text); return response, label"
\* or the except clause it raises into
DirectOnQueryText(available, label_field, label, ok_pc, except_pc) ==
    LET r == handle_direct_query(StrArg(frame.query_text), available)
    IN  /\ log' = Append(log, DirectCall(StrArg(frame.query_text), available))
        /\ IF r.raised
           THEN /\ frame' = [frame EXCEPT !.error = r.error]
                /\ pc' = except_pc
           ELSE /\ frame' = [frame EXCEPT !.response = r.answer, ![label_field] = label]
                /\ pc' = ok_pc

\* lines 44, 74-75: docs = get_relevant_documents(query_text), kept on the instance
\* (get_relevant_documents_with_fusion catches every exception and returns [])
KBRetrieve ==
    /\ pc = "dispatch"
    /\ frame.query_type = KNOWLEDGE_BASE
    /\ \E d \in DocLists :
        /\ frame' = [frame EXCEPT !.docs = d]
        /\ last_retrieved_docs' = d
        /\ log' = Append(log, Call("get_relevant_documents",
                                   StrArg(frame.query_text), TRUE, FALSE))
        /\ pc' = IF Len(d) > 0 THEN "kb_rag" ELSE "kb_nodocs"
    /\ UNCHANGED <<last_tool_args, offRouter>>

\* lines 78-80 and rag_chain.py: process_rag_query(query_text, docs, self)
KBRag ==
    /\ pc = "kb_rag"
    /\ last_retrieved_docs' = frame.docs
    /\ \E available \in BOOLEAN :
        /\ log' = Append(log, Call("process_rag_query",
                                   [query |-> frame.query_text, docs |-> frame.docs],
                                   available, ~available))
        /\ IF available
           THEN /\ frame' = [frame EXCEPT
                              !.response = [by |-> "rag", query |-> frame.query_text,
                                            docs |-> frame.docs],
                              !.source = "Knowledge Base"]
                /\ pc' = "footer"
           ELSE /\ frame' = [frame EXCEPT !.error = "LLMError"]
                /\ pc' = "kb_except"
    /\ UNCHANGED <<last_tool_args, offRouter>>

\* lines 81-84: no documents
KBNoDocs ==
    /\ pc = "kb_nodocs"
    /\ \E available \in BOOLEAN :
        DirectOnQueryText(available, "source",
                          "General Knowledge (No Relevant Docs Found)",
                          "footer", "kb_except")
    /\ UNCHANGED <<instVars, offRouter>>

\* lines 85-89: the except clause of _handle_knowledge_base_query
KBExcept ==
    /\ pc = "kb_except"
    /\ \E available \in BOOLEAN :
        DirectOnQueryText(available, "source", "General Knowledge (Retrieval Error)",
                          "footer", "route_except")
    /\ UNCHANGED <<instVars, offRouter>>

\* lines 46, 95-101: the function-calling model answers with a function call, or
\* with none, or raises
ToolSelect ==
    /\ pc = "dispatch"
    /\ frame.query_type = TOOL_CALL
    /\ \/ \E fc \in FunctionCalls :
            /\ frame' = [frame EXCEPT !.function_call = fc]
            /\ log' = Append(log, Call("function_llm", StrArg(frame.query_text),
                                       TRUE, FALSE))
            /\ pc' = "tool_parse"
       \/ /\ log' = Append(log, Call("function_llm", StrArg(frame.query_text),
                                     TRUE, FALSE))
          /\ pc' = "tool_nomatch"
          /\ UNCHANGED frame
       \/ /\ log' = Append(log, Call("function_llm", StrArg(frame.query_text),
                                     FALSE, TRUE))
          /\ frame' = [frame EXCEPT !.error = "LLMError"]
          /\ pc' = "tool_except"
    /\ UNCHANGED <<instVars, offRouter>>

\* line 102: no function call
ToolNoMatch ==
    /\ pc = "tool_nomatch"
    /\ \E available \in BOOLEAN :
        DirectOnQueryText(available, "called_function",
                          "General Knowledge (No Tool Match)", "wrap", "tool_except")
    /\ UNCHANGED <<instVars, offRouter>>

\* lines 104-111: args = json.loads(raw_args), raw_args defaulting to "{}"
ToolParse ==
    /\ pc = "tool_parse"
    /\ LET fc       == frame.function_call
           raw_args == IF fc.has_arguments THEN fc.arguments ELSE "{}"
           parsed   == json_loads(raw_args)
       IN  IF parsed.ok
           THEN /\ frame' = [frame EXCEPT !.args = parsed]
                /\ pc' = "tool_lookup"
                /\ UNCHANGED log
           ELSE \E available \in BOOLEAN :
                    DirectOnQueryText(available, "called_function",
                                      "Function call failed to parse args",
                                      "wrap", "tool_except")
    /\ UNCHANGED <<instVars, offRouter>>

\* lines 113-115: tool_fn = TOOLS.get(function_name)
ToolLookup ==
    /\ pc = "tool_lookup"
    /\ IF frame.function_call.name \in TOOLS
       THEN /\ pc' = "tool_call"
            /\ UNCHANGED <<frame, log>>
       ELSE \E available \in BOOLEAN :
                DirectOnQueryText(available, "called_function",
                                  "Unknown tool: " \o frame.function_call.name,
                                  "wrap", "tool_except")
    /\ UNCHANGED <<instVars, offRouter>>

\* lines 118-119: tool_output = tool_fn(**args); self._last_tool_args = args
ToolCall ==
    /\ pc = "tool_call"
    /\ LET name == frame.function_call.name
       IN  IF ~Binds(name, frame.args)
           THEN /\ frame' = [frame EXCEPT !.error = "TypeError"]
                /\ log' = Append(log, Call(name, frame.args, TRUE, TRUE))
                /\ pc' = "tool_except"
                /\ UNCHANGED last_tool_args
           ELSE \E ok \in (IF ToolMayRaise(name) THEN BOOLEAN ELSE {TRUE}) :
                /\ log' = Append(log, Call(name, frame.args, ok, ~ok))
                /\ IF ok
                   THEN /\ frame' = [frame EXCEPT !.tool_invoked =
                                       [ran |-> TRUE, name |-> name, args |-> frame.args]]
                        /\ last_tool_args' = [has |-> TRUE, value |-> frame.args]
                        /\ pc' = "tool_format"
                   ELSE /\ frame' = [frame EXCEPT
                                       !.tool_invoked =
                                         [ran |-> TRUE, name |-> name, args |-> frame.args],
                                       !.error = "HTTPError"]
                        /\ UNCHANGED last_tool_args
                        /\ pc' = "tool_except"
    /\ UNCHANGED <<last_retrieved_docs, offRouter>>

\* lines 151-160: the formatting chain turns the tool output into the answer
ToolFormat ==
    /\ pc = "tool_format"
    /\ \E available \in BOOLEAN :
        /\ log' = Append(log, Call("formatting_chain",
                                   [query |-> frame.query_text,
                                    function_name |-> frame.function_call.name,
                                    tool_output |-> frame.tool_invoked],
                                   available, ~available))
        /\ IF available
           THEN /\ frame' = [frame EXCEPT
                              !.response = [by |-> "formatting_chain",
                                            query |-> frame.query_text,
                                            tool_output |-> frame.tool_invoked],
                              !.called_function = frame.function_call.name]
                /\ pc' = "wrap"
           ELSE /\ frame' = [frame EXCEPT !.error = "LLMError"]
                /\ pc' = "tool_except"
    /\ UNCHANGED <<instVars, offRouter>>

\* lines 162-164: the except clause of _handle_tool_call_query
ToolExcept ==
    /\ pc = "tool_except"
    /\ \E available \in BOOLEAN :
        DirectOnQueryText(available, "called_function",
                          "General Knowledge (Tool Call Error)", "wrap", "route_except")
    /\ UNCHANGED <<instVars, offRouter>>

\* lines 50-56: function_called from what the handler returned
WrapFunctionCalled(called_function) ==
    IF called_function \in TOOLS
    THEN FcDict(called_function,
                IF last_tool_args.has THEN last_tool_args.value.items ELSE <<>>)
    ELSE FcStr(called_function)

ToolWrap ==
    /\ pc = "wrap"
    /\ frame' = [frame EXCEPT !.function_called = WrapFunctionCalled(frame.called_function)]
    /\ pc' = "footer"
    /\ UNCHANGED <<log, instVars, offRouter>>

\* lines 57-59, 170-172: the direct route
DirectWithHistory ==
    /\ pc = "dispatch"
    /\ frame.query_type \notin {KNOWLEDGE_BASE, TOOL_CALL}
    /\ \E available \in BOOLEAN :
        LET messages == history_and_question(frame.history, frame.query_text)
            r == handle_direct_query(messages, available)
        IN  /\ log' = Append(log, DirectCall(messages, available))
            /\ IF r.raised
               THEN /\ frame' = [frame EXCEPT !.error = r.error]
                    /\ pc' = "route_except"
               ELSE /\ frame' = [frame EXCEPT !.response = r.answer,
                                              !.source = "General Knowledge"]
                    /\ pc' = "footer"
    /\ UNCHANGED <<instVars, offRouter>>

\* lines 60-63: the except clause of route_query; what it raises leaves route_query
RouteExcept ==
    /\ pc = "route_except"
    /\ \E available \in BOOLEAN :
        DirectOnQueryText(available, "source", "General Knowledge (Fallback)",
                          "footer", "raised")
    /\ UNCHANGED <<instVars, offRouter>>

-----------------------------------------------------------------------------
(* QueryRouter._create_attribution_footer *)

\* raw_source.startswith('http')
StartsWithHttp(raw_source) == raw_source[1] \in {"http", "https"}

\* lines 188-195: netloc + path of a URL, the base name of a path
SourceName(raw_source) ==
    IF StartsWithHttp(raw_source)
    THEN raw_source[3] \o (IF Len(raw_source) >= 4 THEN raw_source[4] ELSE "")
    ELSE raw_source[Len(raw_source)]

\* lines 185-195: the names of the documents that carry a source, in order
RECURSIVE source_names(_)
source_names(ds) ==
    IF ds = <<>> THEN <<>>
    ELSE (IF "source" \in DOMAIN Head(ds).metadata
          THEN <<SourceName(Head(ds).metadata.source)>>
          ELSE <<>>)
         \o source_names(Tail(ds))

\* the orders in which a set can be iterated
Orderings(S) ==
    {o \in [1..Cardinality(S) -> S] : \A i, j \in 1..Cardinality(S) : o[i] = o[j] => i = j}

\* the names as collected, repetitions kept
JoinedNamesNoSet(names) == {names}

\* line 198: what ', '.join(set(source_names)) can be given
JoinedNames(names) == Orderings({names[i] : i \in 1..Len(names)})

SourcePart(entries)  == [label |-> "Source", entries |-> entries, text |-> ""]
FunctionPart(text)   == [label |-> "Function Called", entries |-> <<>>, text |-> text]

\* the source attribution without its test on the source label
SourcePartsAnySource(src, retrieved) ==
    IF Len(retrieved) > 0 /\ Len(source_names(retrieved)) > 0
    THEN {<<SourcePart(e)>> : e \in JoinedNames(source_names(retrieved))}
    ELSE {<<>>}

\* lines 183-198: the footers the source attribution can give, one per iteration order
SourceParts(src, retrieved) ==
    IF Truthy(src) /\ src = "Knowledge Base" /\ Len(retrieved) > 0
                   /\ Len(source_names(retrieved)) > 0
    THEN {<<SourcePart(e)>> : e \in JoinedNames(source_names(retrieved))}
    ELSE {<<>>}

\* repr() of a JSON str or int
Repr(v) == IF v.t = "str" THEN "'" \o v.s \o "'" ELSE ToString(v.n)

\* line 210: ", ".join(f"{k}={repr(v)}" ...)
RECURSIVE ParamStr(_)
ParamStr(items) ==
    IF items = <<>> THEN ""
    ELSE Head(items).k \o "=" \o Repr(Head(items).v)
         \o (IF Len(items) > 1 THEN ", " ELSE "") \o ParamStr(Tail(items))

\* lines 201-213: the function attribution
FunctionParts(fc) ==
    IF fc.type = "None" \/ (fc.type = "str" /\ ~Truthy(fc.value))
    THEN <<>>
    ELSE LET func_name  == fc.value
             parameters == IF fc.type = "dict" THEN fc.parameters ELSE <<>>
         IN  IF Len(parameters) > 0
             THEN <<FunctionPart(func_name \o "(" \o ParamStr(parameters) \o ")")>>
             ELSE <<FunctionPart(func_name)>>

create_attribution_footer(src, fc) ==
    {sp \o FunctionParts(fc) : sp \in SourceParts(src, last_retrieved_docs)}

\* lines 65-66: the footer is appended and the response returned
RouteFooter ==
    /\ pc = "footer"
    /\ \E f \in create_attribution_footer(frame.source, frame.function_called) :
        frame' = [frame EXCEPT !.footer = f]
    /\ pc' = "returned"
    /\ UNCHANGED <<log, instVars, offRouter>>

\* route_query has returned or raised: its locals are gone, the instance stays
RouteQueryLeave ==
    /\ pc \in {"returned", "raised"}
    /\ pc' = "idle"
    /\ frame' = Frame0
    /\ log' = <<>>
    /\ UNCHANGED <<instVars, offRouter>>

-----------------------------------------------------------------------------
(* Two knowledge-base route_query calls running at once on one QueryRouter.  *)
(* Each call has its own locals; self.last_retrieved_docs is the one slot    *)
(* both write and read.  A call gives way to the other wherever it waits for *)
(* the vector store or the chat model.                                       *)

Calls == {1, 2}

CallFrame0 == [docs |-> <<>>, source |-> None, footer |-> <<>>]

ConcurrentIdle ==
    /\ cc_pc = [c \in Calls |-> "idle"]
    /\ cc_frame = [c \in Calls |-> CallFrame0]

\* the documents the footer of a call is built from: the call's own
FooterDocsOfCall(c) == cc_frame[c].docs

\* line 184-186: the documents the footer of a call is built from:
\* self.last_retrieved_docs
FooterDocs(c) == last_retrieved_docs

\* query_router.py lines 74-75: docs = get_relevant_documents(query_text);
\* self.last_retrieved_docs = docs.  With no document the handler goes to
\* process_direct_query(query_text), which raises on a non-empty str, as do the
\* two except clauses after it.
ConcRetrieve(c) ==
    /\ cc_pc[c] = "start"
    /\ \E d \in DocLists :
        /\ cc_frame' = [cc_frame EXCEPT ![c].docs = d]
        /\ last_retrieved_docs' = d
        /\ cc_pc' = [cc_pc EXCEPT ![c] = IF Len(d) > 0 THEN "kb_rag" ELSE "raised"]
    /\ UNCHANGED offConcurrent

\* rag_chain.py lines 13-14: router.last_retrieved_docs = docs
ConcRagStore(c) ==
    /\ cc_pc[c] = "kb_rag"
    /\ last_retrieved_docs' = cc_frame[c].docs
    /\ cc_pc' = [cc_pc EXCEPT ![c] = "rag_invoke"]
    /\ UNCHANGED <<cc_frame, offConcurrent>>

\* rag_chain.py lines 39-44, query_router.py line 80: the chain answers and the
\* handler returns response, "Knowledge Base"; or it raises, and so do the
\* fallbacks on the str query
ConcRagInvoke(c) ==
    /\ cc_pc[c] = "rag_invoke"
    /\ \/ /\ cc_frame' = [cc_frame EXCEPT ![c].source = "Knowledge Base"]
          /\ cc_pc' = [cc_pc EXCEPT ![c] = "footer"]
       \/ /\ cc_pc' = [cc_pc EXCEPT ![c] = "raised"]
          /\ UNCHANGED cc_frame
    /\ UNCHANGED <<last_retrieved_docs, offConcurrent>>

\* query_router.py lines 65-66, 178-198: the footer is built and the call returns
ConcFooter(c) ==
    /\ cc_pc[c] = "footer"
    /\ \E f \in SourceParts(cc_frame[c].source, FooterDocs(c)) :
        cc_frame' = [cc_frame EXCEPT ![c].footer = f]
    /\ cc_pc' = [cc_pc EXCEPT ![c] = "returned"]
    /\ UNCHANGED <<last_retrieved_docs, offConcurrent>>

-----------------------------------------------------------------------------
(* Numbers: the float scores and prices, kept as exact fractions n/d, d > 0 *)

Abs(x) == IF x < 0 THEN -x ELSE x

RECURSIVE GCD(_, _)
GCD(a, b) == IF b = 0 THEN a ELSE GCD(b, a % b)

LCM(a, b) == (a \div GCD(a, b)) * b

\* the fraction n/d in lowest terms
Frac(n, d) == LET g == GCD(Abs(n), d) IN [n |-> n \div g, d |-> d \div g]

FracAdd(x, y) ==
    LET l == LCM(x.d, y.d) IN Frac(x.n * (l \div x.d) + y.n * (l \div y.d), l)

FracLess(x, y) ==
    LET l == LCM(x.d, y.d) IN x.n * (l \div x.d) < y.n * (l \div y.d)

FracNeg(x) == [n |-> -x.n, d |-> x.d]

FracSub(x, y) == FracAdd(x, FracNeg(y))

FracMul(x, y) ==
    LET g1 == GCD(Abs(x.n), y.d)
        g2 == GCD(Abs(y.n), x.d)
    IN  Frac((x.n \div g1) * (y.n \div g2), (x.d \div g2) * (y.d \div g1))

\* x / y for y # 0
FracDiv(x, y) ==
    FracMul(x, IF y.n > 0 THEN [n |-> y.d, d |-> y.n] ELSE [n |-> -y.d, d |-> -y.n])

\* a float: a fraction, or NaN, or an infinity (d = 0)
Num(i)  == Frac(i, 1)
NaN     == [n |-> 0, d |-> 0]
Inf     == [n |-> 1, d |-> 0]
NegInf  == [n |-> -1, d |-> 0]
IsNaN(x)    == x = NaN
IsFinite(x) == x.d > 0

FloatNeg(x) == IF IsFinite(x) THEN FracNeg(x) ELSE [n |-> -x.n, d |-> 0]

FloatAdd(x, y) ==
    IF IsNaN(x) \/ IsNaN(y) THEN NaN
    ELSE IF IsFinite(x) /\ IsFinite(y) THEN FracAdd(x, y)
    ELSE IF IsFinite(x) THEN y
    ELSE IF IsFinite(y) THEN x
    ELSE IF x = y THEN x ELSE NaN

FloatSub(x, y) == FloatAdd(x, FloatNeg(y))

Sign(x) == IF x.n > 0 THEN 1 ELSE IF x.n < 0 THEN -1 ELSE 0

FloatMul(x, y) ==
    IF IsNaN(x) \/ IsNaN(y) THEN NaN
    ELSE IF IsFinite(x) /\ IsFinite(y) THEN FracMul(x, y)
    ELSE IF Sign(x) * Sign(y) = 0 THEN NaN
    ELSE [n |-> Sign(x) * Sign(y), d |-> 0]

\* numpy float division: x/0 is an infinity, 0/0 is NaN
FloatDiv(x, y) ==
    IF IsNaN(x) \/ IsNaN(y) THEN NaN
    ELSE IF IsFinite(x) /\ IsFinite(y)
         THEN (IF y.n # 0 THEN FracDiv(x, y)
               ELSE IF x.n = 0 THEN NaN ELSE [n |-> Sign(x), d |-> 0])
    ELSE IF IsFinite(x) THEN Num(0)
    ELSE IF IsFinite(y) THEN [n |-> Sign(x) * (IF y.n < 0 THEN -1 ELSE 1), d |-> 0]
    ELSE NaN

\* comparisons; any comparison with NaN is False
FloatLT(x, y) ==
    /\ ~IsNaN(x) /\ ~IsNaN(y)
    /\ IF IsFinite(x) /\ IsFinite(y) THEN FracLess(x, y)
       ELSE IF IsFinite(x) THEN y = Inf
       ELSE IF IsFinite(y) THEN x = NegInf
       ELSE x = NegInf /\ y = Inf
FloatLE(x, y) == ~IsNaN(x) /\ ~IsNaN(y) /\ (x = y \/ FloatLT(x, y))
FloatGT(x, y) == FloatLT(y, x)
FloatGE(x, y) == FloatLE(y, x)

-----------------------------------------------------------------------------
(* knowledge_base/retriever.py: reciprocal_rank_fusion *)

\* the default of the parameter k
rrf_k == 60

\* page_content values, in the order Python compares them as str
Contents == <<"a", "b", "c">>
ContentSet == {Contents[i] : i \in DOMAIN Contents}
ContentIndex(c) == CHOOSE i \in DOMAIN Contents : Contents[i] = c
KeyLess(x, y) == ContentIndex(x) < ContentIndex(y)

\* a retrieved document; two documents at different places of the input are two
\* objects even when their content is equal
FusionDoc(c, i, rank) ==
    [page_content |-> c, metadata |-> [list |-> i, rank |-> rank]]

DocsOf(content_lists) ==
    [i \in DOMAIN content_lists |->
        [r \in DOMAIN content_lists[i] |-> FusionDoc(content_lists[i][r], i, r - 1)]]

\* line 50, for a key already in the dict or a new one, each occurrence counted
\* on its own
AddScoreOverwrite(scores, doc_key, term) ==
    IF \E i \in DOMAIN scores : scores[i].key = doc_key
    THEN [i \in DOMAIN scores |->
            IF scores[i].key = doc_key THEN [key |-> doc_key, score |-> term]
            ELSE scores[i]]
    ELSE Append(scores, [key |-> doc_key, score |-> term])

\* line 50: doc_scores[doc_key] = doc_scores[doc_key] + 1.0 / (rank + k); a new key
\* enters the dict after the keys already there
AddScore(scores, doc_key, term) ==
    IF \E i \in DOMAIN scores : scores[i].key = doc_key
    THEN [i \in DOMAIN scores |->
            IF scores[i].key = doc_key
            THEN [key |-> doc_key, score |-> FracAdd(scores[i].score, term)]
            ELSE scores[i]]
    ELSE Append(scores, [key |-> doc_key, score |-> term])

\* lines 46-50: the inner loop, from a 0-based rank on
RECURSIVE ScoreList(_, _, _)
ScoreList(scores, results, rank) ==
    IF rank >= Len(results) THEN scores
    ELSE ScoreList(AddScore(scores, results[rank + 1].page_content,
                            Frac(1, rank + rrf_k)),
                   results, rank + 1)

\* lines 44-50: the outer loop
RECURSIVE ScoreLists(_, _)
ScoreLists(scores, lists) ==
    IF lists = <<>> THEN scores
    ELSE ScoreLists(ScoreList(scores, Head(lists), 0), Tail(lists))

\* the order of two (score, key) tuples
TupleGreater(x, y) ==
    \/ FracLess(y.score, x.score)
    \/ x.score = y.score /\ KeyLess(y.key, x.key)

RECURSIVE InsertDescending(_, _)
InsertDescending(sorted, x) ==
    IF sorted = <<>> THEN <<x>>
    ELSE IF TupleGreater(x, Head(sorted)) THEN <<x>> \o sorted
    ELSE <<Head(sorted)>> \o InsertDescending(Tail(sorted), x)

\* lines 53-56: scored_results.sort(reverse=True) on the (score, key) tuples
RECURSIVE SortReverse(_)
SortReverse(items) ==
    IF items = <<>> THEN <<>>
    ELSE InsertDescending(SortReverse(Tail(items)), Head(items))

RECURSIVE Flatten(_)
Flatten(lists) == IF lists = <<>> THEN <<>> ELSE Head(lists) \o Flatten(Tail(lists))

\* lines 60-63: content_to_doc keeps, for a content, the document seen last
ContentToDoc(lists, key) ==
    LET flat == Flatten(lists)
        last == CHOOSE i \in DOMAIN flat :
                    /\ flat[i].page_content = key
                    /\ \A j \in DOMAIN flat : j > i => flat[j].page_content # key
    IN  flat[last]

\* every document of a scored content, not one per content
RECURSIVE RerankKeepsOccurrences(_, _)
RerankKeepsOccurrences(lists, scored) ==
    IF scored = <<>> THEN <<>>
    ELSE SelectSeq(Flatten(lists), LAMBDA d : d.page_content = Head(scored).key)
         \o RerankKeepsOccurrences(lists, Tail(scored))

\* line 66: one document per scored key, in the sorted order
Rerank(lists, scored) ==
    [i \in DOMAIN scored |-> ContentToDoc(lists, scored[i].key)]

reciprocal_rank_fusion(lists) == Rerank(lists, SortReverse(ScoreLists(<<>>, lists)))

\* the argument lists of the bounded runs
FusionInputs ==
    {DocsOf(cl) : cl \in SeqsUpTo(SeqsUpTo(ContentSet, FuseMaxLen), FuseMaxLists)}

FusionIdle ==
    /\ results_list = <<>>
    /\ rrf_pc = "idle"
    /\ doc_scores = <<>>
    /\ scored_results = <<>>
    /\ reranked_docs = <<>>

\* lines 41-50
FuseScore ==
    /\ rrf_pc = "start"
    /\ doc_scores' = ScoreLists(<<>>, results_list)
    /\ rrf_pc' = "scored"
    /\ UNCHANGED <<results_list, scored_results, reranked_docs, offFusion>>

\* lines 53-56
FuseSort ==
    /\ rrf_pc = "scored"
    /\ scored_results' = SortReverse(doc_scores)
    /\ rrf_pc' = "sorted"
    /\ UNCHANGED <<results_list, doc_scores, reranked_docs, offFusion>>

\* lines 60-68
FuseRerank ==
    /\ rrf_pc = "sorted"
    /\ reranked_docs' = Rerank(results_list, scored_results)
    /\ rrf_pc' = "returned"
    /\ UNCHANGED <<results_list, doc_scores, scored_results, offFusion>>

-----------------------------------------------------------------------------
(* knowledge_base/retriever.py: generate_query_variations and                *)
(* get_relevant_documents_with_fusion                                        *)

\* the user question handed to get_relevant_documents
QUESTION == <<"w","h","y">>

\* x.split("\n")
RECURSIVE SplitLines(_)
SplitLines(s) ==
    IF \A i \in DOMAIN s : s[i] # "\n" THEN <<s>>
    ELSE LET i == CHOOSE i \in DOMAIN s : s[i] = "\n" /\ \A j \in 1..(i - 1) : s[j] # "\n"
         IN  <<SubSeq(s, 1, i - 1)>> \o SplitLines(SubSeq(s, i + 1, Len(s)))

\* line 90: [q.strip() for q in x.split("\n") if q.strip()]
RECURSIVE StripNonBlank(_)
StripNonBlank(lines) ==
    IF lines = <<>> THEN <<>>
    ELSE (IF Strip(Head(lines)) # <<>> THEN <<Strip(Head(lines))>> ELSE <<>>)
         \o StripNonBlank(Tail(lines))

\* line 94: [question] + generate_queries.invoke(...)
all_queries(question, x) == <<question>> \o StripNonBlank(SplitLines(x))

\* what the paraphrasing model can answer
VariationOutputs == SeqsUpTo({"x", " ", "\n"}, MaxRawLen)

\* what the retriever can answer to one query when asked for k documents: at most
\* k documents, no content twice
RetrieverAnswers(k, i) ==
    {[r \in DOMAIN cl |-> FusionDoc(cl[r], i, r - 1)] :
        cl \in {s \in SeqsUpTo(ContentSet, MaxHits) :
                    /\ Len(s) <= k
                    /\ \A a, b \in DOMAIN s : s[a] = s[b] => a = b}}

Min(a, b) == IF a <= b THEN a ELSE b

\* the whole ranking
TruncateNothing(docs, n) == docs

\* line 128: fused_results[:top_k]
Truncate(docs, n) == SubSeq(docs, 1, Min(n, Len(docs)))

RetrievalIdle ==
    /\ ret_pc = "idle"
    /\ ret_top_k = 0
    /\ query_variations = <<>>
    /\ all_results = <<>>
    /\ retriever_calls = <<>>
    /\ ret_value = <<>>
    /\ ret_error = ""

\* line 111: the variations are generated, or the generation raises
GenerateVariations ==
    /\ ret_pc = "start"
    /\ \/ \E x \in VariationOutputs :
            /\ query_variations' = all_queries(QUESTION, x)
            /\ ret_pc' = "get_retriever"
            /\ UNCHANGED ret_error
       \/ /\ ret_pc' = "except"
          /\ ret_error' = "generate_query_variations"
          /\ UNCHANGED query_variations
    /\ UNCHANGED <<ret_top_k, all_results, retriever_calls, ret_value, offRetrieval>>

\* lines 114-116: get_retriever(top_k * 2) gives a retriever, or None
GetRetriever ==
    /\ ret_pc = "get_retriever"
    /\ \/ /\ ret_pc' = "loop"
          /\ UNCHANGED <<ret_value, ret_error>>
       \/ /\ ret_pc' = "returned"
          /\ ret_value' = <<>>
          /\ ret_error' = "get_retriever"
    /\ UNCHANGED <<ret_top_k, query_variations, all_results, retriever_calls,
                   offRetrieval>>

\* lines 120-122: retriever.invoke(variation) for the next variation
RetrieveVariation ==
    /\ ret_pc = "loop"
    /\ Len(all_results) < Len(query_variations)
    /\ LET i == Len(all_results) + 1
           k == ret_top_k * 2
       IN  /\ retriever_calls' = Append(retriever_calls,
                                        [query |-> query_variations[i], k |-> k])
           /\ \/ \E results \in RetrieverAnswers(k, i) :
                    /\ all_results' = Append(all_results, results)
                    /\ UNCHANGED <<ret_pc, ret_error>>
              \/ /\ ret_pc' = "except"
                 /\ ret_error' = "retriever.invoke"
                 /\ UNCHANGED all_results
    /\ UNCHANGED <<ret_top_k, query_variations, ret_value, offRetrieval>>

\* lines 125-128: fuse and return the first top_k
FuseAndReturn ==
    /\ ret_pc = "loop"
    /\ Len(all_results) = Len(query_variations)
    /\ ret_value' = Truncate(reciprocal_rank_fusion(all_results), ret_top_k)
    /\ ret_pc' = "returned"
    /\ UNCHANGED <<ret_top_k, query_variations, all_results, retriever_calls,
                   ret_error, offRetrieval>>

\* lines 129-131: except Exception: return []
RetrieveExcept ==
    /\ ret_pc = "except"
    /\ ret_value' = <<>>
    /\ ret_pc' = "returned"
    /\ UNCHANGED <<ret_top_k, query_variations, all_results, retriever_calls,
                   ret_error, offRetrieval>>

-----------------------------------------------------------------------------
(* utils/tools.py: the indicator functions, on a sequence of floats.  A pandas *)
(* Series is its index (row labels) with its values; a value that is a square  *)
(* root is kept as the number under the root.                                  *)

\* xs[from] + ... + xs[to], summed by halves
RECURSIVE SumFloats(_, _, _)
SumFloats(xs, from, to) ==
    IF from > to THEN Num(0)
    ELSE IF from = to THEN xs[from]
    ELSE LET mid == (from + to) \div 2
         IN  FloatAdd(SumFloats(xs, from, mid), SumFloats(xs, mid + 1, to))

\* xs.rolling(window=window).mean() at row t (min_periods = window)
RollingMean(xs, window, t) ==
    IF t < window THEN NaN
    ELSE FloatDiv(SumFloats(xs, t - window + 1, t), Num(window))

\* (xs[from] - m)^2 + ... + (xs[to] - m)^2, summed by halves
RECURSIVE SumSquares(_, _, _, _)
SumSquares(xs, m, from, to) ==
    IF from > to THEN Num(0)
    ELSE IF from = to THEN FloatMul(FloatSub(xs[from], m), FloatSub(xs[from], m))
    ELSE LET mid == (from + to) \div 2
         IN  FloatAdd(SumSquares(xs, m, from, mid), SumSquares(xs, m, mid + 1, to))

Sqrt(v) == IF IsNaN(v) THEN NaN ELSE [sqrt_of |-> v]

\* xs.rolling(window=window).std() at row t: the sample standard deviation
RollingStd(xs, window, t) ==
    IF t < window THEN NaN
    ELSE Sqrt(FloatDiv(SumSquares(xs, RollingMean(xs, window, t), t - window + 1, t),
                       Num(window - 1)))

\* sma + side * (std * num_std), side = 1 for the upper and -1 for the lower band
Band(sma, std, num_std, side) ==
    IF IsNaN(sma) \/ IsNaN(std) THEN NaN
    ELSE [mid |-> sma, side |-> side,
          sq |-> FloatMul(Num(num_std * num_std), std.sqrt_of)]

\* x <= band and x >= band for a float x
BandGE(band, x) ==
    LET diff == FloatSub(x, band.mid)
        sq   == FloatMul(diff, diff)
    IN  IF band.side = -1 THEN FloatLE(diff, Num(0)) /\ FloatGE(sq, band.sq)
        ELSE FloatLE(diff, Num(0)) \/ FloatLE(sq, band.sq)
BandLE(band, x) ==
    LET diff == FloatSub(x, band.mid)
        sq   == FloatMul(diff, diff)
    IN  IF band.side = 1 THEN FloatGE(diff, Num(0)) /\ FloatGE(sq, band.sq)
        ELSE FloatGE(diff, Num(0)) \/ FloatLE(sq, band.sq)

\* std / mean * 100
VolatilityOf(std, mean) ==
    IF IsNaN(std) \/ IsNaN(mean) THEN NaN
    ELSE Sqrt(FloatDiv(FloatMul(Num(10000), std.sqrt_of), FloatMul(mean, mean)))

\* xs.ewm(span=span, adjust=False).mean(): y[1] = x[1],
\* y[t] = (1 - a) * y[t-1] + a * x[t] with a = 2 / (span + 1); no row is left empty
RECURSIVE EwmFrom(_, _, _)
EwmFrom(xs, span, acc) ==
    IF Len(acc) = Len(xs) THEN acc
    ELSE LET t == Len(acc) + 1
         IN  EwmFrom(xs, span,
                     Append(acc, IF t = 1 THEN xs[1]
                                 ELSE FloatAdd(FloatMul(Frac(span - 1, span + 1), acc[t - 1]),
                                               FloatMul(Frac(2, span + 1), xs[t]))))
EwmMean(xs, span) == EwmFrom(xs, span, <<>>)

\* row labels: the timestamps of the frame, and the 0, 1, ... of a Series made
\* from a bare array
DatetimeIndex(n) == [t \in 1..n |-> [label |-> "Timestamp", at |-> t]]
RangeIndex(n)    == [t \in 1..n |-> [label |-> "int", at |-> t - 1]]
PdSeries(index, values) == [index |-> index, values |-> values]

\* lines 101-109: calculate_rsi; gain and loss are arrays, so the result carries
\* the labels 0 .. n-1
calculate_rsi(prices, period) ==
    LET n        == Len(prices)
        delta    == [t \in 1..n |-> IF t = 1 THEN NaN
                                    ELSE FloatSub(prices[t], prices[t - 1])]
        gain     == [t \in 1..n |-> IF FloatGT(delta[t], Num(0)) THEN delta[t] ELSE Num(0)]
        loss     == [t \in 1..n |-> IF FloatLT(delta[t], Num(0)) THEN FloatNeg(delta[t])
                                    ELSE Num(0)]
        rsi(t)   == LET avg_gain == RollingMean(gain, period, t)
                        avg_loss == RollingMean(loss, period, t)
                        rs       == FloatDiv(avg_gain, avg_loss)
                    IN  FloatSub(Num(100), FloatDiv(Num(100), FloatAdd(Num(1), rs)))
    IN  PdSeries(RangeIndex(n), [t \in 1..n |-> rsi(t)])

\* a - b, row by row
RECURSIVE Differences(_, _, _)
Differences(a, b, acc) ==
    IF Len(acc) = Len(a) THEN acc
    ELSE Differences(a, b, Append(acc, FloatSub(a[Len(acc) + 1], b[Len(acc) + 1])))

\* lines 111-116: calculate_macd
calculate_macd(prices, fast, slow, signal) ==
    LET n    == Len(prices)
        exp1 == EwmMean(prices, fast)
        exp2 == EwmMean(prices, slow)
        macd == Differences(exp1, exp2, <<>>)
    IN  [macd |-> PdSeries(DatetimeIndex(n), macd),
         macd_signal |-> PdSeries(DatetimeIndex(n), EwmMean(macd, signal))]

\* lines 118-123: calculate_bollinger_bands
calculate_bollinger_bands(prices, window, num_std) ==
    LET n   == Len(prices)
        sma == [t \in 1..n |-> RollingMean(prices, window, t)]
        std == [t \in 1..n |-> RollingStd(prices, window, t)]
    IN  [upper_band |-> PdSeries(DatetimeIndex(n),
                                 [t \in 1..n |-> Band(sma[t], std[t], num_std, 1)]),
         sma        |-> PdSeries(DatetimeIndex(n), sma),
         lower_band |-> PdSeries(DatetimeIndex(n),
                                 [t \in 1..n |-> Band(sma[t], std[t], num_std, -1)])]

\* df[name] = series: the value that reaches row t of a frame with the given
\* index, NaN when the series has no row labelled like it
Reindexed(series, index, t) ==
    LET rows == 1..Len(index)
    IN  IF \E j \in rows : series.index[j] = index[t]
        THEN series.values[CHOOSE j \in rows : series.index[j] = index[t]]
        ELSE NaN

-----------------------------------------------------------------------------
(* utils/tools.py: get_crypto_signals *)

\* str(v) of an argument value
FormatValue(v) == IF v.t = "str" THEN v.s ELSE ToString(v.n)

\* the symbol argument: the function-calling model sends a JSON value
Symbols == {StrVal("bitcoin"), IntVal(1)}

\* price histories: a flat stretch followed by two free points
TailPrices == {9, 10, 11}
FlatPrices == {10}
\* a swing out, a swing back past the start and half a recovery: MACD and its
\* signal line keep one sign while the histogram, on the other side of zero,
\* turns back towards it
SwingPrices ==
    {<<Num(1000000), Num(1019305), Num(985446), Num(1001353)>>,
     <<Num(1000000), Num(980695), Num(1014554), Num(998647)>>}
PriceLists ==
    {<<>>} \cup {<<Num(p)>> : p \in FlatPrices} \cup SwingPrices \cup
    {[t \in 1..n |-> IF t <= n - 2 THEN Num(p) ELSE Num(tail[t - (n - 2)])] :
        n \in 2..MaxPoints, p \in FlatPrices, tail \in [1..2 -> TailPrices]}

\* total_volumes: none, or one volume per price, flat with a free last point
LastVolumes == {10, 20}
VolumeLists(n) ==
    {<<>>} \cup {[t \in 1..n |-> IF t < n THEN Num(10) ELSE Num(v)] : v \in LastVolumes}

\* a null of the report (None), and the null of a float read from the frame
NullValue == [null |-> TRUE]
Nullable(v) == IF IsNaN(v) THEN NullValue ELSE v

\* round(v, ndigits) of a float: to the nearest multiple of 10^-ndigits, a tie to
\* the even one; NaN and the infinities stay what they are
RoundInt(n, d) ==
    LET q == n \div d
        r == n % d
    IN  IF 2 * r < d THEN q
        ELSE IF 2 * r > d THEN q + 1
        ELSE IF q % 2 = 0 THEN q ELSE q + 1
Round(v, ndigits) ==
    IF ~IsFinite(v) THEN v
    ELSE Frac(RoundInt(v.n * 10^ndigits, v.d), 10^ndigits)

\* lines 125-129: iloc[-24] is the 24th point counted from the end
calculate_price_change(prices) ==
    LET n          == Len(prices)
        last_price == prices[n]
        Change(base) ==
            FloatMul(FloatSub(FloatDiv(last_price, base), Num(1)), Num(100))
    IN  [day_change  |-> IF n >= 24 THEN Change(prices[n - 23]) ELSE NullValue,
         week_change |-> IF n >= 168 THEN Change(prices[n - 167]) ELSE NullValue]

\* lines 223-226
PriceChanges(prices) ==
    LET changes == calculate_price_change(prices)
    IN  [h24 |-> IF changes.day_change # NullValue
                 THEN Round(changes.day_change, 2) ELSE NullValue,
         d7  |-> IF changes.week_change # NullValue
                 THEN Round(changes.week_change, 2) ELSE NullValue]

\* lines 154-193: the frame, of which the report reads the last two rows
DataFrame(prices, volumes) ==
    LET n      == Len(prices)
        index  == DatetimeIndex(n)
        onRows(values) == PdSeries(index, values)
        bands  == calculate_bollinger_bands(prices, 20, 2)
        macds  == calculate_macd(prices, 12, 26, 9)
        rsi    == calculate_rsi(prices, 14)
        DfRow(t) ==
            LET put(series) == Reindexed(series, index, t)
                macd        == put(macds.macd)
                macd_signal == put(macds.macd_signal)
            IN  [price  |-> prices[t],
                 volume |-> IF volumes = <<>> THEN NaN ELSE volumes[t],
                 SMA20  |-> put(onRows([u \in 1..n |-> RollingMean(prices, 20, u)])),
                 SMA50  |-> put(onRows([u \in 1..n |-> RollingMean(prices, 50, u)])),
                 SMA200 |-> IF n >= 200
                            THEN put(onRows([u \in 1..n |-> RollingMean(prices, 200, u)]))
                            ELSE NaN,
                 BB_Upper  |-> put(bands.upper_band),
                 BB_Middle |-> put(bands.sma),
                 BB_Lower  |-> put(bands.lower_band),
                 RSI    |-> put(rsi),
                 MACD   |-> macd,
                 MACD_Signal    |-> macd_signal,
                 MACD_Histogram |-> FloatSub(macd, macd_signal),
                 Volume_SMA20 |-> IF volumes = <<>> THEN NaN
                                  ELSE put(onRows([u \in 1..n |->
                                                      RollingMean(volumes, 20, u)])),
                 Volatility |-> VolatilityOf(RollingStd(prices, 20, t),
                                             RollingMean(prices, 20, t))]
    IN  [len |-> n,
         columns |-> {"price", "SMA20", "SMA50", "SMA200", "BB_Upper", "BB_Middle",
                      "BB_Lower", "RSI", "MACD", "MACD_Signal", "MACD_Histogram",
                      "Volatility"}
                     \cup (IF volumes # <<>>
                           THEN {"volume", "Volume_SMA20", "Volume_Change"}
                           ELSE {}),
         latest   |-> DfRow(n),
         previous |-> DfRow(n - 1)]

NoRow == [price |-> NaN]
NoFrame == [len |-> 0, columns |-> {}, latest |-> NoRow, previous |-> NoRow]

\* lines 227-242: the indicator snapshot of the report (rounding keeps a value a value)
Indicators(latest) ==
    [SMA20  |-> Nullable(latest.SMA20),
     SMA50  |-> Nullable(latest.SMA50),
     SMA200 |-> Nullable(latest.SMA200),
     RSI    |-> Nullable(latest.RSI),
     MACD   |-> Nullable(latest.MACD),
     MACD_Signal    |-> Nullable(latest.MACD_Signal),
     MACD_Histogram |-> Nullable(latest.MACD_Histogram),
     BB_Upper  |-> Nullable(latest.BB_Upper),
     BB_Middle |-> Nullable(latest.BB_Middle),
     BB_Lower  |-> Nullable(latest.BB_Lower),
     Volatility |-> Nullable(latest.Volatility)]

Signal(type, strength, indicator) ==
    [type |-> type, strength |-> strength, indicator |-> indicator]

\* a signal for as long as SMA20 stays on one side of SMA50
SMASignalsOnLevel(latest, previous) ==
    IF ~IsNaN(latest.SMA20) /\ ~IsNaN(latest.SMA50)
    THEN IF FloatGT(latest.SMA20, latest.SMA50)
         THEN <<Signal("BUY", "STRONG", "SMA Crossover")>>
         ELSE IF FloatLT(latest.SMA20, latest.SMA50)
         THEN <<Signal("SELL", "STRONG", "SMA Crossover")>>
         ELSE <<>>
    ELSE <<>>

\* lines 258-262
SMASignals(latest, previous) ==
    IF ~IsNaN(latest.SMA20) /\ ~IsNaN(latest.SMA50)
    THEN IF FloatGT(latest.SMA20, latest.SMA50) /\ FloatLE(previous.SMA20, previous.SMA50)
         THEN <<Signal("BUY", "STRONG", "SMA Crossover")>>
         ELSE IF FloatLT(latest.SMA20, latest.SMA50)
                 /\ FloatGE(previous.SMA20, previous.SMA50)
         THEN <<Signal("SELL", "STRONG", "SMA Crossover")>>
         ELSE <<>>
    ELSE <<>>

\* lines 265-274
RSISignals(latest, previous) ==
    LET rsi == latest.RSI
    IN  IF IsNaN(rsi) THEN <<>>
        ELSE IF FloatLT(rsi, Num(30)) THEN <<Signal("BUY", "MEDIUM", "RSI")>>
        ELSE IF FloatLT(rsi, Num(40)) /\ FloatLT(previous.RSI, Num(30))
             THEN <<Signal("BUY", "WEAK", "RSI")>>
        ELSE IF FloatGT(rsi, Num(70)) THEN <<Signal("SELL", "MEDIUM", "RSI")>>
        ELSE IF FloatGT(rsi, Num(60)) /\ FloatGT(previous.RSI, Num(70))
             THEN <<Signal("SELL", "WEAK", "RSI")>>
        ELSE <<>>

\* the weak signals without the test of the histogram's sign
MACDSignalsAnyHistogram(latest, previous) ==
    LET macd        == latest.MACD
        macd_signal == latest.MACD_Signal
        macd_hist   == latest.MACD_Histogram
    IN  IF IsNaN(macd) \/ IsNaN(macd_signal) THEN <<>>
        ELSE IF FloatGT(macd, macd_signal) /\ FloatLE(previous.MACD, previous.MACD_Signal)
             THEN <<Signal("BUY", "STRONG", "MACD")>>
        ELSE IF FloatLT(macd, macd_signal) /\ FloatGE(previous.MACD, previous.MACD_Signal)
             THEN <<Signal("SELL", "STRONG", "MACD")>>
        ELSE IF /\ ~IsNaN(macd_hist)
                /\ FloatGT(macd, Num(0)) /\ FloatGT(macd_signal, Num(0))
                /\ FloatGT(macd_hist, previous.MACD_Histogram)
             THEN <<Signal("BUY", "WEAK", "MACD")>>
        ELSE IF /\ ~IsNaN(macd_hist)
                /\ FloatLT(macd, Num(0)) /\ FloatLT(macd_signal, Num(0))
                /\ FloatLT(macd_hist, previous.MACD_Histogram)
             THEN <<Signal("SELL", "WEAK", "MACD")>>
        ELSE <<>>

\* lines 277-289
MACDSignals(latest, previous) ==
    LET macd        == latest.MACD
        macd_signal == latest.MACD_Signal
        macd_hist   == latest.MACD_Histogram
    IN  IF IsNaN(macd) \/ IsNaN(macd_signal) THEN <<>>
        ELSE IF FloatGT(macd, macd_signal) /\ FloatLE(previous.MACD, previous.MACD_Signal)
             THEN <<Signal("BUY", "STRONG", "MACD")>>
        ELSE IF FloatLT(macd, macd_signal) /\ FloatGE(previous.MACD, previous.MACD_Signal)
             THEN <<Signal("SELL", "STRONG", "MACD")>>
        ELSE IF /\ ~IsNaN(macd_hist)
                /\ FloatGT(macd, Num(0)) /\ FloatGT(macd_signal, Num(0))
                /\ FloatGT(macd_hist, Num(0))
                /\ FloatGT(macd_hist, previous.MACD_Histogram)
             THEN <<Signal("BUY", "WEAK", "MACD")>>
        ELSE IF /\ ~IsNaN(macd_hist)
                /\ FloatLT(macd, Num(0)) /\ FloatLT(macd_signal, Num(0))
                /\ FloatLT(macd_hist, Num(0))
                /\ FloatLT(macd_hist, previous.MACD_Histogram)
             THEN <<Signal("SELL", "WEAK", "MACD")>>
        ELSE <<>>

\* the two bands tested one after the other, not one or else the other
BollingerSignalsBothBands(latest) ==
    IF IsNaN(latest.BB_Upper) \/ IsNaN(latest.BB_Lower) THEN <<>>
    ELSE (IF BandGE(latest.BB_Lower, latest.price)
          THEN <<Signal("BUY", "MEDIUM", "Bollinger Bands")>> ELSE <<>>)
         \o (IF BandLE(latest.BB_Upper, latest.price)
             THEN <<Signal("SELL", "MEDIUM", "Bollinger Bands")>> ELSE <<>>)

\* lines 292-296
BollingerSignals(latest) ==
    IF IsNaN(latest.BB_Upper) \/ IsNaN(latest.BB_Lower) THEN <<>>
    ELSE IF BandGE(latest.BB_Lower, latest.price)
         THEN <<Signal("BUY", "MEDIUM", "Bollinger Bands")>>
    ELSE IF BandLE(latest.BB_Upper, latest.price)
         THEN <<Signal("SELL", "MEDIUM", "Bollinger Bands")>>
    ELSE <<>>

\* lines 299-307
VolumeSignals(columns, latest, previous) ==
    IF "volume" \in columns /\ "Volume_SMA20" \in columns
       /\ ~IsNaN(latest.volume) /\ ~IsNaN(latest.Volume_SMA20)
       /\ FloatGT(latest.volume, FloatMul(latest.Volume_SMA20, Frac(3, 2)))
    THEN IF FloatGT(latest.price, previous.price)
         THEN <<Signal("BUY", "MEDIUM", "Volume")>>
         ELSE IF FloatLT(latest.price, previous.price)
         THEN <<Signal("SELL", "MEDIUM", "Volume")>>
         ELSE <<>>
    ELSE <<>>

\* lines 256-307: the rules, in the order they are applied
RuleSignals(data_frame) ==
    SMASignals(data_frame.latest, data_frame.previous)
    \o RSISignals(data_frame.latest, data_frame.previous)
    \o MACDSignals(data_frame.latest, data_frame.previous)
    \o BollingerSignals(data_frame.latest)
    \o VolumeSignals(data_frame.columns, data_frame.latest, data_frame.previous)

\* the trend signal added whether or not a rule gave a signal
FallbackSignalsAlways(found, latest) ==
    IF IsNaN(latest.SMA20) \/ IsNaN(latest.SMA50)
       \/ IsNaN(latest.MACD) \/ IsNaN(latest.MACD_Signal)
    THEN <<>>
    ELSE IF FloatGT(latest.SMA20, latest.SMA50) /\ FloatGT(latest.MACD, latest.MACD_Signal)
         THEN <<Signal("BULLISH_TREND", "MEDIUM", "Combined Analysis")>>
    ELSE IF FloatLT(latest.SMA20, latest.SMA50) /\ FloatLT(latest.MACD, latest.MACD_Signal)
         THEN <<Signal("BEARISH_TREND", "MEDIUM", "Combined Analysis")>>
    ELSE <<Signal("NEUTRAL", "WEAK", "Combined Analysis")>>

\* lines 310-332: the signal added when no rule gave one
FallbackSignals(found, latest) ==
    IF found # <<>> THEN <<>>
    ELSE IF IsNaN(latest.SMA20) \/ IsNaN(latest.SMA50)
            \/ IsNaN(latest.MACD) \/ IsNaN(latest.MACD_Signal)
         THEN <<>>
    ELSE IF FloatGT(latest.SMA20, latest.SMA50) /\ FloatGT(latest.MACD, latest.MACD_Signal)
         THEN <<Signal("BULLISH_TREND", "MEDIUM", "Combined Analysis")>>
    ELSE IF FloatLT(latest.SMA20, latest.SMA50) /\ FloatLT(latest.MACD, latest.MACD_Signal)
         THEN <<Signal("BEARISH_TREND", "MEDIUM", "Combined Analysis")>>
    ELSE <<Signal("NEUTRAL", "WEAK", "Combined Analysis")>>

\* the trend signals counted with the BUY and SELL signals
OverallSentimentCountingTrends(found) ==
    LET buy_signals  == SelectSeq(found, LAMBDA s : s.type \in {"BUY", "BULLISH_TREND"})
        sell_signals == SelectSeq(found, LAMBDA s : s.type \in {"SELL", "BEARISH_TREND"})
    IN  IF Len(buy_signals) > Len(sell_signals) THEN "BULLISH"
        ELSE IF Len(sell_signals) > Len(buy_signals) THEN "BEARISH"
        ELSE "NEUTRAL"

\* lines 335-343
OverallSentiment(found) ==
    LET buy_signals  == SelectSeq(found, LAMBDA s : s.type = "BUY")
        sell_signals == SelectSeq(found, LAMBDA s : s.type = "SELL")
    IN  IF Len(buy_signals) > Len(sell_signals) THEN "BULLISH"
        ELSE IF Len(sell_signals) > Len(buy_signals) THEN "BEARISH"
        ELSE "NEUTRAL"

NoReport == [symbol |-> StrVal(""), price_changes |-> NullValue,
             indicators |-> NullValue, signals |-> <<>>, overall_sentiment |-> ""]
NoData   == [prices |-> <<>>, total_volumes |-> <<>>]
NoResult == [kind |-> "none"]

\* the exception leaves get_crypto_signals
ExceptPropagates(symbol, e) == [pc |-> "raised", result |-> NoResult]

\* lines 365-366: return f"Error analyzing {symbol}: {str(e)}"
ExceptReturn(symbol, e) ==
    [pc |-> "returned",
     result |-> [kind |-> "str",
                 text |-> "Error analyzing " \o FormatValue(symbol) \o ": " \o e]]

SignalsIdle ==
    /\ sig_pc = "idle"
    /\ sig_symbol = StrVal("")
    /\ sig_data = NoData
    /\ df = NoFrame
    /\ signals = NoReport
    /\ sig_error = ""
    /\ sig_result = NoResult

\* lines 142-148: the price history is fetched, or the request raises
SignalsFetch ==
    /\ sig_pc = "start"
    /\ \/ \E prices \in PriceLists : \E volumes \in VolumeLists(Len(prices)) :
            /\ sig_data' = [prices |-> prices, total_volumes |-> volumes]
            /\ sig_pc' = "fetched"
            /\ UNCHANGED sig_error
       \/ /\ sig_error' = "HTTPError"
          /\ sig_pc' = "except"
          /\ UNCHANGED sig_data
    /\ UNCHANGED <<sig_symbol, df, signals, sig_result, offSignals>>

\* lines 150-151: no prices
SignalsNoData ==
    /\ sig_pc = "fetched"
    /\ sig_data.prices = <<>>
    /\ sig_result' = [kind |-> "dict", error |-> "No price data returned."]
    /\ sig_pc' = "returned"
    /\ UNCHANGED <<sig_symbol, sig_data, df, signals, sig_error, offSignals>>

\* lines 154-193: the frame and its indicator columns; with one point there is no
\* time delta and idxmax raises
SignalsFrame ==
    /\ sig_pc = "fetched"
    /\ sig_data.prices # <<>>
    /\ LET prices  == sig_data.prices
           volumes == sig_data.total_volumes
           n       == Len(prices)
       IN  IF n < 2
           THEN /\ sig_error' = "attempt to get argmax of an empty sequence"
                /\ sig_pc' = "except"
                /\ UNCHANGED df
           ELSE /\ df' = DataFrame(prices, volumes)
                /\ sig_pc' = "indicators"
                /\ UNCHANGED sig_error
    /\ UNCHANGED <<sig_symbol, sig_data, signals, sig_result, offSignals>>

\* lines 196-254: the report is started with the indicator snapshot
SignalsSnapshot ==
    /\ sig_pc = "indicators"
    /\ signals' = [symbol |-> sig_symbol,
                   price_changes |-> PriceChanges(sig_data.prices),
                   indicators |-> Indicators(df.latest),
                   signals |-> <<>>, overall_sentiment |-> ""]
    /\ sig_pc' = "rules"
    /\ UNCHANGED <<sig_symbol, sig_data, df, sig_error, sig_result, offSignals>>

\* lines 256-345: the rules, the fallback signal, the overall sentiment
SignalsRules ==
    /\ sig_pc = "rules"
    /\ LET found == RuleSignals(df)
           all   == found \o FallbackSignals(found, df.latest)
       IN  signals' = [signals EXCEPT !.signals = all,
                                      !.overall_sentiment = OverallSentiment(all)]
    /\ sig_pc' = "format"
    /\ UNCHANGED <<sig_symbol, sig_data, df, sig_error, sig_result, offSignals>>

\* lines 358-363: summary and markdown; signals['symbol'].upper() needs a str
SignalsFormat ==
    /\ sig_pc = "format"
    /\ IF sig_symbol.t = "str"
       THEN /\ sig_result' = [kind |-> "markdown", report |-> signals]
            /\ sig_pc' = "returned"
            /\ UNCHANGED sig_error
       ELSE /\ sig_error' = "'int' object has no attribute 'upper'"
            /\ sig_pc' = "except"
            /\ UNCHANGED sig_result
    /\ UNCHANGED <<sig_symbol, sig_data, df, signals, offSignals>>

\* lines 365-366: except Exception
SignalsExcept ==
    /\ sig_pc = "except"
    /\ LET out == ExceptReturn(sig_symbol, sig_error)
       IN  /\ sig_pc' = out.pc
           /\ sig_result' = out.result
    /\ UNCHANGED <<sig_symbol, sig_data, df, signals, sig_error, offSignals>>

-----------------------------------------------------------------------------
(* frontend/streamlit_ui.py: render_chat_interface, the chat input *)

\* line 178: a request counts for 60 seconds
RateWindow == 60
\* line 180: the number of counted requests that closes the input
RateLimit == 5
\* line 190: st.session_state.messages[-10:]
HistoryLimit == 10

Prompts   == {"btc"}
Responses == {"answer"}

Message(role, content) == [role |-> role, content |-> content]

\* s[-n:]
LastN(s, n) == SubSeq(s, IF Len(s) > n THEN Len(s) - n + 1 ELSE 1, Len(s))

\* app.py lines 99-100: a new chat
SessionState0 == [messages |-> <<>>]

\* the runs of the session that an exception has ended
Failures ==
    Len(router_inputs) - Len(stored_chats) - (IF ui_pc = "routing" THEN 1 ELSE 0)

UIIdle ==
    /\ ui_pc = "idle"
    /\ ui_now = 0
    /\ session_state = SessionState0
    /\ last_messages = <<>>
    /\ router_inputs = <<>>
    /\ stored_chats = <<>>
    /\ ui_log = <<>>

\* time passes between two prompts (time that passes while the router works shows
\* at the next prompt only)
UITick ==
    /\ ui_pc = "waiting"
    /\ ui_now < MaxClock
    /\ ui_now' = ui_now + TickSeconds
    /\ UNCHANGED <<ui_pc, session_state, last_messages, router_inputs, stored_chats,
                   ui_log, offUI>>

\* line 178: [t for t in last_requests if now - t < 60]
RecentRequests(requests, now) == SelectSeq(requests, LAMBDA t : now - t < RateWindow)

\* lines 174-194: a prompt is submitted; it is turned away (st.stop()), or recorded,
\* appended and handed to the router with the last messages
UISubmit ==
    /\ ui_pc = "waiting"
    /\ Len(ui_log) < MaxPrompts
    /\ \E prompt \in Prompts :
        LET now      == ui_now
            requests == IF "last_requests" \in DOMAIN session_state
                        THEN session_state.last_requests ELSE <<>>
            recent   == RecentRequests(requests, now)
            messages == Append(session_state.messages, Message("user", prompt))
        IN  IF Len(recent) >= RateLimit
            THEN /\ session_state' = [messages      |-> session_state.messages,
                                      last_requests |-> recent]
                 /\ ui_log' = Append(ui_log, [at |-> now, prompt |-> prompt,
                                              accepted |-> FALSE])
                 /\ UNCHANGED <<ui_pc, last_messages, router_inputs>>
            ELSE /\ session_state' = [messages      |-> messages,
                                      last_requests |-> Append(recent, now)]
                 /\ last_messages' = LastN(messages, HistoryLimit)
                 /\ router_inputs' = Append(router_inputs, LastN(messages, HistoryLimit))
                 /\ ui_log' = Append(ui_log, [at |-> now, prompt |-> prompt,
                                              accepted |-> TRUE])
                 /\ ui_pc' = "routing"
    /\ UNCHANGED <<ui_now, stored_chats, offUI>>

\* lines 194-202: the router answers; the answer is appended and the chat stored
\* (update_chat_messages may raise: then the chat is not stored, and the exception
\* ends the run at app.py lines 138-143)
UIRouteReturns ==
    /\ ui_pc = "routing"
    /\ \E response \in Responses :
        LET messages == Append(session_state.messages, Message("assistant", response))
        IN  /\ session_state' = [session_state EXCEPT !.messages = messages]
            /\ \/ stored_chats' = Append(stored_chats, messages)
               \/ Failures < MaxFailures /\ UNCHANGED stored_chats
    /\ ui_pc' = "waiting"
    /\ UNCHANGED <<ui_now, last_messages, router_inputs, ui_log, offUI>>

\* line 194: route_query raises (classify_query is called outside its try,
\* query_router.py line 39); the exception ends the run at app.py lines 138-143
UIRouteRaises ==
    /\ ui_pc = "routing"
    /\ Failures < MaxFailures
    /\ ui_pc' = "waiting"
    /\ UNCHANGED <<ui_now, session_state, last_messages, router_inputs, stored_chats,
                   ui_log, offUI>>

-----------------------------------------------------------------------------
(* Specifications *)

\* any number of route_query calls, one after the other, on one QueryRouter
Init ==
    RouterInit /\ ClassifierIdle /\ FusionIdle /\ RetrievalIdle /\ SignalsIdle
    /\ ConcurrentIdle
    /\ UIIdle

Next ==
    \/ RouteQueryEntry
    \/ RouteClassify
    \/ RouteClassifyRaises
    \/ KBRetrieve
    \/ KBRag
    \/ KBNoDocs
    \/ KBExcept
    \/ ToolSelect
    \/ ToolNoMatch
    \/ ToolParse
    \/ ToolLookup
    \/ ToolCall
    \/ ToolFormat
    \/ ToolExcept
    \/ ToolWrap
    \/ DirectWithHistory
    \/ RouteExcept
    \/ RouteFooter
    \/ RouteQueryLeave

Spec == Init /\ [][Next]_vars

\* classify_query on its own, on every text of the bounded alphabet
InitClassifier ==
    /\ RouterInit
    /\ FusionIdle
    /\ RetrievalIdle
    /\ SignalsIdle
    /\ ConcurrentIdle
    /\ UIIdle
    /\ cq_text \in Texts
    /\ cq_pc = "start"
    /\ cq_raw = NoText
    /\ cq_calls = 0
    /\ cq_result = NoText

NextClassifier ==
    \/ ClassifyValidate
    \/ ClassifyInvoke
    \/ ClassifyInvokeRaises
    \/ ClassifyNormalize

SpecClassifier == InitClassifier /\ [][NextClassifier]_vars

\* reciprocal_rank_fusion on its own, on every bounded list of ranked lists
InitFusion ==
    /\ RouterInit
    /\ ClassifierIdle
    /\ RetrievalIdle
    /\ SignalsIdle
    /\ ConcurrentIdle
    /\ UIIdle
    /\ results_list \in FusionInputs
    /\ rrf_pc = "start"
    /\ doc_scores = <<>>
    /\ scored_results = <<>>
    /\ reranked_docs = <<>>

NextFusion ==
    \/ FuseScore
    \/ FuseSort
    \/ FuseRerank

SpecFusion == InitFusion /\ [][NextFusion]_vars

\* get_relevant_documents_with_fusion on its own
InitRetrieval ==
    /\ RouterInit
    /\ ClassifierIdle
    /\ FusionIdle
    /\ SignalsIdle
    /\ ConcurrentIdle
    /\ UIIdle
    /\ ret_pc = "start"
    /\ ret_top_k \in 1..MaxTopK
    /\ query_variations = <<>>
    /\ all_results = <<>>
    /\ retriever_calls = <<>>
    /\ ret_value = <<>>
    /\ ret_error = ""

NextRetrieval ==
    \/ GenerateVariations
    \/ GetRetriever
    \/ RetrieveVariation
    \/ FuseAndReturn
    \/ RetrieveExcept

SpecRetrieval == InitRetrieval /\ [][NextRetrieval]_vars

\* get_crypto_signals on its own, on every price history of the bounded family
InitSignals ==
    /\ RouterInit
    /\ ClassifierIdle
    /\ FusionIdle
    /\ RetrievalIdle
    /\ ConcurrentIdle
    /\ UIIdle
    /\ sig_pc = "start"
    /\ sig_symbol \in Symbols
    /\ sig_data = NoData
    /\ df = NoFrame
    /\ signals = NoReport
    /\ sig_error = ""
    /\ sig_result = NoResult

NextSignals ==
    \/ SignalsFetch
    \/ SignalsNoData
    \/ SignalsFrame
    \/ SignalsSnapshot
    \/ SignalsRules
    \/ SignalsFormat
    \/ SignalsExcept

SpecSignals == InitSignals /\ [][NextSignals]_vars

\* two knowledge-base calls started on a fresh QueryRouter, interleaved freely
InitConcurrent ==
    /\ RouterInit
    /\ ClassifierIdle
    /\ FusionIdle
    /\ RetrievalIdle
    /\ SignalsIdle
    /\ UIIdle
    /\ cc_pc = [c \in Calls |-> "start"]
    /\ cc_frame = [c \in Calls |-> CallFrame0]

NextConcurrent ==
    \E c \in Calls :
        \/ ConcRetrieve(c)
        \/ ConcRagStore(c)
        \/ ConcRagInvoke(c)
        \/ ConcFooter(c)

SpecConcurrent == InitConcurrent /\ [][NextConcurrent]_vars

\* one UI session on a new chat: prompts are submitted as time passes
InitUI ==
    /\ RouterInit
    /\ ClassifierIdle
    /\ FusionIdle
    /\ RetrievalIdle
    /\ SignalsIdle
    /\ ConcurrentIdle
    /\ ui_pc = "waiting"
    /\ ui_now = 0
    /\ session_state = SessionState0
    /\ last_messages = <<>>
    /\ router_inputs = <<>>
    /\ stored_chats = <<>>
    /\ ui_log = <<>>

NextUI ==
    \/ UITick
    \/ UISubmit
    \/ UIRouteReturns
    \/ UIRouteRaises

SpecUI == InitUI /\ [][NextUI]_vars

-----------------------------------------------------------------------------
(* Properties of route_query, checked under Spec *)

Ended == pc \in {"returned", "raised"}

\* the log entries made to one collaborator
CallsTo(callee) == {i \in DOMAIN log : log[i].callee = callee}

\* the 'Source:' and 'Function Called:' lines of a footer
SourceLines(f)   == {i \in DOMAIN f : f[i].label = "Source"}
FunctionLines(f) == {i \in DOMAIN f : f[i].label = "Function Called"}

\* the history of the argument of route_query: all messages but the last
QueryHistory(q) ==
    IF q.type = "str" THEN <<>> ELSE SubSeq(q.messages, 1, Len(q.messages) - 1)

\* C1: whatever the input and whatever the collaborators do, route_query ends by
\* returning a response, never by raising to its caller.
C1_RouteQueryAlwaysReturns == pc # "raised"

\* C2: when classify_query raises, route_query does not raise: it returns the
\* direct answer on the bare query text with source 'General Knowledge (Fallback)'.
C2_ClassifierFailureDegrades ==
    frame.classifier_raised =>
        /\ pc # "raised"
        /\ pc = "returned" => frame.source = "General Knowledge (Fallback)"

\* C3: handing the bare query string to the direct-answer routine never raises
\* when the direct-chat collaborator is available.
C3_BareQueryFallbackNeverRaises ==
    \A i \in CallsTo("process_direct_query") :
        (log[i].arg.type = "str" /\ log[i].available) => ~log[i].raised

\* C4: on the knowledge_base route the call returns and the recorded source follows
\* the retrieval outcome: 'Knowledge Base' with documents, '(No Relevant Docs
\* Found)' with none, '(Retrieval Error)' when answer generation raised.
C4_KnowledgeBaseSourceByOutcome ==
    (Ended /\ frame.query_type = KNOWLEDGE_BASE) =>
        /\ pc = "returned"
        /\ frame.source =
             IF \E i \in CallsTo("process_rag_query") : log[i].raised
             THEN "General Knowledge (Retrieval Error)"
             ELSE IF Len(frame.docs) > 0
                  THEN "Knowledge Base"
                  ELSE "General Knowledge (No Relevant Docs Found)"

\* C5: on the tool_call route, a turn in which the model produced no function
\* call, an unknown function or unparseable arguments returns a direct answer,
\* records a descriptive source ('General Knowledge (No Tool Match)' for no
\* function call), and invokes no tool.
C5_ToolFallbacksRecordSource ==
    LET fc == frame.function_call
        selected   == \E i \in CallsTo("function_llm") : ~log[i].raised
        no_call    == fc = NoFunctionCall
        unknown    == fc # NoFunctionCall /\ fc.name \notin TOOLS
        unparsable == fc # NoFunctionCall /\ fc.has_arguments
                        /\ ~json_loads(fc.arguments).ok
    IN  (Ended /\ frame.query_type = TOOL_CALL /\ selected
               /\ (no_call \/ unknown \/ unparsable)) =>
            /\ pc = "returned"
            /\ frame.response.by = "direct"
            /\ Truthy(frame.source)
            /\ no_call => frame.source = "General Knowledge (No Tool Match)"
            /\ ~frame.tool_invoked.ran

\* C6: a finished turn carries a 'Function Called:' line exactly when a tool of the
\* table was invoked during it, and the line names that tool with this call's
\* arguments as key=value pairs (the bare name without arguments).
C6_FunctionLineIffToolInvoked ==
    Ended =>
        /\ (FunctionLines(frame.footer) # {}) <=> frame.tool_invoked.ran
        /\ \A i \in FunctionLines(frame.footer) :
             LET items == frame.tool_invoked.args.items
             IN  frame.footer[i].text =
                   IF Len(items) > 0
                   THEN frame.tool_invoked.name \o "(" \o ParamStr(items) \o ")"
                   ELSE frame.tool_invoked.name

\* C7: a returned response has a 'Source:' line only when the source is
\* 'Knowledge Base' and documents were retrieved in this call, and the line lists
\* every distinct origin name of those documents exactly once.
C7_SourceLineDeduplicated ==
    pc = "returned" =>
        \A i \in SourceLines(frame.footer) :
            LET entries == frame.footer[i].entries
                origins == {SourceName(frame.docs[k].metadata.source) :
                              k \in {n \in DOMAIN frame.docs :
                                       "source" \in DOMAIN frame.docs[n].metadata}}
            IN  /\ frame.source = "Knowledge Base"
                /\ Len(frame.docs) > 0
                /\ {entries[k] : k \in DOMAIN entries} = origins
                /\ \A a, b \in DOMAIN entries : entries[a] = entries[b] => a = b
                /\ SourceLines(frame.footer) = {i}

\* two retrieved documents with different raw sources and one origin name give a
\* 'Source:' line with a single entry
C7_Witness ==
    /\ pc = "returned"
    /\ Len(frame.docs) = 2
    /\ \A k \in 1..2 : "source" \in DOMAIN frame.docs[k].metadata
    /\ frame.docs[1].metadata.source # frame.docs[2].metadata.source
    /\ \E i \in SourceLines(frame.footer) : Len(frame.footer[i].entries) = 1

-----------------------------------------------------------------------------
(* Properties of classify_query, checked under SpecClassifier *)

\* C9: a text with fewer than 5 characters after trimming, or with at most 2
\* distinct characters, or empty or all white space, is classified 'direct'
\* without any call to the classification model.
C9_ShortTextsDirectWithoutCall ==
    (\/ Len(Strip(cq_text)) < 5
     \/ Cardinality(CharSet(cq_text)) <= 2
     \/ \A i \in DOMAIN cq_text : IsSpace(cq_text[i])) =>
        /\ cq_pc \in {"start", "returned"}
        /\ cq_calls = 0
        /\ cq_pc = "returned" => cq_result = DIRECT

\* a text of 5 characters, 2 of them distinct, has been answered 'direct' without a call
C9_Witness ==
    /\ cq_pc = "returned"
    /\ Len(Strip(cq_text)) = 5
    /\ Cardinality(CharSet(cq_text)) = 2
    /\ cq_calls = 0
    /\ cq_result = DIRECT

\* raw is the label in any letter case, with white space around it and nothing else
IsLabelPadded(raw, label) ==
    \E a \in 0..Len(raw) :
        /\ a + Len(label) <= Len(raw)
        /\ \A k \in 1..a : IsSpace(raw[k])
        /\ \A k \in 1..Len(label) : LowerChar(raw[a + k]) = label[k]
        /\ \A k \in (a + Len(label) + 1)..Len(raw) : IsSpace(raw[k])

\* C10: classify_query returns one of the three labels; the model's output counts
\* trimmed and lower-cased, and any output that is not exactly a label gives 'direct'.
C10_ResultIsALabel ==
    cq_pc = "returned" =>
        /\ cq_result \in valid_categories
        /\ cq_calls > 0 =>
             /\ \A label \in valid_categories :
                  IsLabelPadded(cq_raw, label) => cq_result = label
             /\ (\A label \in valid_categories : ~IsLabelPadded(cq_raw, label))
                  => cq_result = DIRECT

\* the model answered with a label followed by a full stop, and 'direct' was returned
C10_Witness ==
    /\ cq_pc = "returned"
    /\ cq_calls = 1
    /\ cq_raw = TOOL_CALL \o <<".">>
    /\ cq_result = DIRECT

-----------------------------------------------------------------------------
(* Properties of reciprocal_rank_fusion, checked under SpecFusion *)

\* the places <<list, position>> of the input, and the contents found there
InputPlaces ==
    UNION {{<<i, r>> : r \in DOMAIN results_list[i]} : i \in DOMAIN results_list}
InputContents == {results_list[p[1]][p[2]].page_content : p \in InputPlaces}
Occurrences(c) == {p \in InputPlaces : results_list[p[1]][p[2]].page_content = c}

\* the places of the output that hold a content
OutputPlaces(c) == {i \in DOMAIN reranked_docs : reranked_docs[i].page_content = c}

\* the sum of 1/(r + k) over a set of places, r the 0-based rank of a place
RECURSIVE SumOfReciprocalRanks(_)
SumOfReciprocalRanks(places) ==
    IF places = {} THEN Frac(0, 1)
    ELSE LET p == CHOOSE p \in places : TRUE
         IN  FracAdd(Frac(1, (p[2] - 1) + rrf_k), SumOfReciprocalRanks(places \ {p}))

CumulativeScore(c) == SumOfReciprocalRanks(Occurrences(c))

\* c occurs in exactly n lists, at rank 0 each time, and nowhere else
AtRankZeroOnly(c, n) ==
    /\ Cardinality(Occurrences(c)) = n
    /\ \A p \in Occurrences(c) : p[2] = 1

\* the first place of a content in the input, lists in order, ranks in order
FirstSeen(c) ==
    LET flat == Flatten(results_list)
    IN  CHOOSE i \in DOMAIN flat :
            /\ flat[i].page_content = c
            /\ \A j \in DOMAIN flat : j < i => flat[j].page_content # c

\* C11: the output of reciprocal_rank_fusion holds every content of the input lists
\* exactly once, and nothing that was not in the input.
C11_FusionKeepsEachContentOnce ==
    rrf_pc = "returned" =>
        /\ \A c \in InputContents : Cardinality(OutputPlaces(c)) = 1
        /\ \A i \in DOMAIN reranked_docs :
              \E p \in InputPlaces : reranked_docs[i] = results_list[p[1]][p[2]]

\* a content in two lists, one twice in a single list, and a third one
C11_Witness ==
    /\ rrf_pc = "returned"
    /\ \E c \in InputContents : Cardinality({p[1] : p \in Occurrences(c)}) >= 2
    /\ \E c \in InputContents :
          \E p, q \in Occurrences(c) : p[1] = q[1] /\ p[2] # q[2]
    /\ Len(reranked_docs) >= 2

\* C12: the output is in non-increasing order of cumulative score, the sum of
\* 1/(r + 60) over a content's occurrences; a content whose occurrences are rank 0 of
\* two lists comes before one whose only occurrence is rank 0 of one list.
C12_OrderedByCumulativeScore ==
    rrf_pc = "returned" =>
        /\ \A i, j \in DOMAIN reranked_docs :
              i < j => ~FracLess(CumulativeScore(reranked_docs[i].page_content),
                                 CumulativeScore(reranked_docs[j].page_content))
        /\ \A a, b \in InputContents :
              AtRankZeroOnly(a, 2) /\ AtRankZeroOnly(b, 1) =>
                  \A i \in OutputPlaces(a), j \in OutputPlaces(b) : i < j

\* the larger content (which a tie would put first) tops one list, the smaller tops two
C12_Witness ==
    /\ rrf_pc = "returned"
    /\ \E a, b \in InputContents :
          /\ AtRankZeroOnly(a, 2) /\ AtRankZeroOnly(b, 1) /\ KeyLess(a, b)
          /\ \E i \in OutputPlaces(a), j \in OutputPlaces(b) : i < j

\* C13: of two contents with equal cumulative score, the one seen first in the input
\* (earlier list, then earlier rank) comes first in the output.
C13_TiesInFirstSeenOrder ==
    rrf_pc = "returned" =>
        \A i, j \in DOMAIN reranked_docs :
            LET a == reranked_docs[i].page_content
                b == reranked_docs[j].page_content
            IN  (i < j /\ a # b /\ CumulativeScore(a) = CumulativeScore(b))
                    => FirstSeen(a) < FirstSeen(b)

-----------------------------------------------------------------------------
(* Properties of get_relevant_documents_with_fusion, checked under SpecRetrieval *)

\* docs is the first n documents of ranking, or all of it when it is shorter
IsFirstOf(docs, n, ranking) ==
    /\ Len(docs) = (IF Len(ranking) < n THEN Len(ranking) ELSE n)
    /\ \A i \in DOMAIN docs : docs[i] = ranking[i]

\* C14: the result has at most top_k documents, no content twice; when nothing
\* fails, the retriever was asked once per variation, the question first, for
\* 2 * top_k documents each, and the result is the first top_k documents of the
\* fusion of the answers.
C14_FusedTopKOfAllVariants ==
    ret_pc = "returned" =>
        /\ Len(ret_value) <= ret_top_k
        /\ \A i, j \in DOMAIN ret_value :
              ret_value[i].page_content = ret_value[j].page_content => i = j
        /\ ret_error = "" =>
              /\ query_variations[1] = QUESTION
              /\ DOMAIN retriever_calls = DOMAIN query_variations
              /\ \A i \in DOMAIN retriever_calls :
                    retriever_calls[i] = [query |-> query_variations[i],
                                          k |-> 2 * ret_top_k]
              /\ Len(all_results) = Len(query_variations)
              /\ IsFirstOf(ret_value, ret_top_k, reciprocal_rank_fusion(all_results))

\* two paraphrases, and a fused ranking longer than top_k
C14_Witness ==
    /\ ret_pc = "returned"
    /\ ret_error = ""
    /\ Len(query_variations) = 3
    /\ Len(reciprocal_rank_fusion(all_results)) > ret_top_k
    /\ Len(ret_value) = ret_top_k

\* C15: whatever fails, the result is the fusion (cut to top_k) of the result lists
\* of the variations whose retrieval succeeded, and is empty only when there is none.
C15_PartialFailureDegrades ==
    ret_pc = "returned" =>
        IsFirstOf(ret_value, ret_top_k, reciprocal_rank_fusion(all_results))

-----------------------------------------------------------------------------
(* Properties of get_crypto_signals, checked under SpecSignals *)

SignalsEnded == sig_pc \in {"returned", "raised"}

\* the fetch answered, with no price point
FetchedNoData == sig_error = "" /\ sig_data.prices = <<>> /\ sig_pc \notin {"start", "idle"}

\* C16: get_crypto_signals never raises.  When the fetch yields no price point it
\* returns the no-data error result and has built no report; an exception of the
\* fetch or of the computation, whatever the length of the series, comes back as
\* the text "Error analyzing <symbol>: <message>".
C16_NeverRaises ==
    /\ sig_pc # "raised"
    /\ (SignalsEnded /\ FetchedNoData) =>
            /\ sig_result = [kind |-> "dict", error |-> "No price data returned."]
            /\ signals = NoReport
    /\ (SignalsEnded /\ sig_error # "") =>
            /\ sig_result.kind = "str"
            /\ sig_result.text =
                 "Error analyzing " \o FormatValue(sig_symbol) \o ": " \o sig_error

\* an exception raised while computing on a fetched series came back as text
C16_Witness ==
    /\ sig_pc = "returned"
    /\ sig_error # ""
    /\ Len(sig_data.prices) >= 1
    /\ sig_result.kind = "str"

\* the report has its indicator snapshot
ReportBuilt == signals.indicators # NullValue

IsNull(v) == v = NullValue

\* the price moved between the last two points (so that an RSI over a window that
\* holds them is a number)
LastPointMoved ==
    sig_data.prices[Len(sig_data.prices)] # sig_data.prices[Len(sig_data.prices) - 1]

\* C17: in the indicator snapshot an indicator is null exactly when the series has
\* fewer points than its lookback: SMA20, the Bollinger bands and Volatility below
\* 20 points, SMA50 below 50; RSI is null below its 14 deltas and a number once it
\* has them; MACD and its signal are null below their EMA windows and numbers once
\* the windows are filled.
C17_NullExactlyBelowLookback ==
    ReportBuilt =>
        LET n   == df.len
            ind == signals.indicators
        IN  /\ IsNull(ind.SMA20) <=> n < 20
            /\ IsNull(ind.BB_Upper) <=> n < 20
            /\ IsNull(ind.BB_Middle) <=> n < 20
            /\ IsNull(ind.BB_Lower) <=> n < 20
            /\ IsNull(ind.Volatility) <=> n < 20
            /\ IsNull(ind.SMA50) <=> n < 50
            /\ n < 14 => IsNull(ind.RSI)
            /\ (n >= 15 /\ LastPointMoved) => ~IsNull(ind.RSI)
            /\ n < 12 => IsNull(ind.MACD)
            /\ n < 9 => IsNull(ind.MACD_Signal)
            /\ n >= 34 => ~IsNull(ind.MACD) /\ ~IsNull(ind.MACD_Signal)

\* the rules have been applied and the sentiment set
RulesApplied == signals.overall_sentiment # ""

SignalsWhere(Test(_)) == {i \in DOMAIN signals.signals : Test(signals.signals[i])}

\* C18: a report on a series of exactly 19 points has SMA20 null, no SMA Crossover
\* signal, no BUY or SELL signal from any rule, and overall_sentiment NEUTRAL.
C18_NineteenPointsNoSignal ==
    (RulesApplied /\ df.len = 19) =>
        /\ IsNull(signals.indicators.SMA20)
        /\ SignalsWhere(LAMBDA x : x.indicator = "SMA Crossover") = {}
        /\ SignalsWhere(LAMBDA x : x.type \in {"BUY", "SELL"}) = {}
        /\ signals.overall_sentiment = "NEUTRAL"

-----------------------------------------------------------------------------
(* Properties of two calls at once, checked under SpecConcurrent *)

\* C19: last_retrieved_docs is one slot shared by the calls running on the
\* instance: whenever a call builds its footer, the 'Source:' line comes from what
\* the slot holds at that moment, whichever call stored it, so that the footer of
\* one call can be built from the documents retrieved by the other.
C19_FooterBuiltFromSharedSlot ==
    [][\A c \in Calls :
          (cc_pc[c] = "footer" /\ cc_pc'[c] = "returned") =>
              cc_frame'[c].footer \in SourceParts(cc_frame[c].source, last_retrieved_docs)
      ]_vars

\* a call has returned with a 'Source:' line that names the other call's documents
\* and not its own
C19_Witness ==
    \E c \in Calls : \E o \in Calls \ {c} :
        /\ cc_pc[c] = "returned"
        /\ cc_frame[c].footer # <<>>
        /\ cc_frame[c].footer \in SourceParts("Knowledge Base", cc_frame[o].docs)
        /\ cc_frame[c].footer \notin SourceParts("Knowledge Base", cc_frame[c].docs)

-----------------------------------------------------------------------------
(* Calls made one after the other on one QueryRouter, checked under Spec *)

\* C20: with calls made one after the other, the footer of a returned call shows
\* this call only: a 'Source:' line is built from the documents this call
\* retrieved, and a 'Function Called:' line with arguments carries the arguments
\* this call passed to the tool; what an earlier call left in last_retrieved_docs
\* or _last_tool_args does not show.
C20_FooterShowsThisCallOnly ==
    pc = "returned" =>
        /\ \A i \in SourceLines(frame.footer) :
              /\ CallsTo("get_relevant_documents") # {}
              /\ <<frame.footer[i]>> \in SourceParts("Knowledge Base", frame.docs)
        /\ \A i \in FunctionLines(frame.footer) :
              frame.function_called.type = "dict" =>
                  \E j \in CallsTo(frame.function_called.value) :
                      /\ ~log[j].raised
                      /\ log[j].arg.items = frame.function_called.parameters
                      /\ frame.footer[i].text =
                           IF Len(log[j].arg.items) > 0
                           THEN log[j].callee \o "(" \o ParamStr(log[j].arg.items) \o ")"
                           ELSE log[j].callee

\* a tool call with arguments has returned on an instance that still holds the
\* documents of an earlier call, and its footer has the function line alone
C20_Witness ==
    /\ pc = "returned"
    /\ last_retrieved_docs # <<>>
    /\ source_names(last_retrieved_docs) # <<>>
    /\ frame.docs = <<>>
    /\ SourceLines(frame.footer) = {}
    /\ \E i \in FunctionLines(frame.footer) : Len(frame.function_called.parameters) > 0

-----------------------------------------------------------------------------
(* The signal list of the report, checked under SpecSignals *)

Fallback(type, strength) == Signal(type, strength, "Combined Analysis")

IsFallback(s) == s.indicator = "Combined Analysis"

\* C21: when none of the SMA, RSI, MACD, Bollinger and Volume rules fires, the
\* signal list of the report is exactly one fallback signal, whatever the length
\* of the series: BULLISH_TREND or BEARISH_TREND (MEDIUM) when SMA20 against SMA50
\* and MACD against its signal line point the same way, NEUTRAL (WEAK) otherwise;
\* when a rule fires, the list holds no fallback signal.
C21_ExactlyOneFallbackIffNoRule ==
    RulesApplied =>
        LET latest == df.latest
            up   == FloatGT(latest.SMA20, latest.SMA50)
                    /\ FloatGT(latest.MACD, latest.MACD_Signal)
            down == FloatLT(latest.SMA20, latest.SMA50)
                    /\ FloatLT(latest.MACD, latest.MACD_Signal)
        IN  IF RuleSignals(df) = <<>>
            THEN signals.signals =
                    IF up THEN <<Fallback("BULLISH_TREND", "MEDIUM")>>
                    ELSE IF down THEN <<Fallback("BEARISH_TREND", "MEDIUM")>>
                    ELSE <<Fallback("NEUTRAL", "WEAK")>>
            ELSE SignalsWhere(IsFallback) = {}

CountOf(type) == Cardinality(SignalsWhere(LAMBDA x : x.type = type))

\* C22: overall_sentiment is BULLISH iff the report has strictly more BUY than
\* SELL signals, BEARISH iff strictly more SELL than BUY, NEUTRAL iff as many of
\* each; only BUY and SELL signals count, so a report whose only signal is the
\* BULLISH_TREND or BEARISH_TREND fallback has overall_sentiment NEUTRAL.
C22_SentimentFromBuySellCounts ==
    RulesApplied =>
        /\ signals.overall_sentiment = "BULLISH" <=> CountOf("BUY") > CountOf("SELL")
        /\ signals.overall_sentiment = "BEARISH" <=> CountOf("SELL") > CountOf("BUY")
        /\ signals.overall_sentiment = "NEUTRAL" <=> CountOf("BUY") = CountOf("SELL")
        /\ (Len(signals.signals) = 1
            /\ signals.signals[1].type \in {"BULLISH_TREND", "BEARISH_TREND"})
                => signals.overall_sentiment = "NEUTRAL"

\* a report whose only signal is the BULLISH_TREND fallback, with sentiment NEUTRAL
C22_Witness ==
    /\ RulesApplied
    /\ signals.signals = <<Fallback("BULLISH_TREND", "MEDIUM")>>
    /\ signals.overall_sentiment = "NEUTRAL"

Emitted(type, strength, indicator) ==
    SignalsWhere(LAMBDA x : x = Signal(type, strength, indicator)) # {}

SignalsOf(indicator) == SignalsWhere(LAMBDA x : x.indicator = indicator)

\* C23: an SMA Crossover BUY (STRONG) is emitted iff SMA20 > SMA50 at the latest
\* point and SMA20 <= SMA50 at the previous one, an SMA Crossover SELL (STRONG)
\* iff the mirror condition holds; when SMA20 > SMA50 held at both points, no SMA
\* Crossover signal is emitted.
C23_CrossoverOnTransitionOnly ==
    RulesApplied =>
        LET latest   == df.latest
            previous == df.previous
        IN  /\ Emitted("BUY", "STRONG", "SMA Crossover")
                 <=> /\ FloatGT(latest.SMA20, latest.SMA50)
                     /\ FloatLE(previous.SMA20, previous.SMA50)
            /\ Emitted("SELL", "STRONG", "SMA Crossover")
                 <=> /\ FloatLT(latest.SMA20, latest.SMA50)
                     /\ FloatGE(previous.SMA20, previous.SMA50)
            /\ \A i \in SignalsOf("SMA Crossover") :
                  signals.signals[i].type \in {"BUY", "SELL"}
                  /\ signals.signals[i].strength = "STRONG"
            /\ (FloatGT(latest.SMA20, latest.SMA50)
                /\ FloatGT(previous.SMA20, previous.SMA50))
                    => SignalsOf("SMA Crossover") = {}

\* SMA20 has just crossed above SMA50 and the BUY was emitted
C23_Witness ==
    /\ RulesApplied
    /\ FloatGT(df.latest.SMA20, df.latest.SMA50)
    /\ FloatLE(df.previous.SMA20, df.previous.SMA50)
    /\ Emitted("BUY", "STRONG", "SMA Crossover")

\* the RSI that calculate_rsi computed for the point at position t of the series
ComputedRSI(t) == calculate_rsi(sig_data.prices, 14).values[t]

Between(x, low, high) == FloatGT(x, Num(low)) /\ FloatLT(x, Num(high))

\* C24: the RSI rule emits BUY MEDIUM iff RSI < 30; BUY WEAK iff RSI lies strictly
\* between 30 and 40 and the previous RSI was < 30; SELL MEDIUM iff RSI > 70; SELL
\* WEAK iff RSI lies strictly between 60 and 70 and the previous RSI was > 70; in
\* every other case, RSI exactly 30 or exactly 70 included, it emits no RSI signal.
C24_RSIRuleByThresholds ==
    RulesApplied =>
        LET rsi      == ComputedRSI(df.len)
            previous == ComputedRSI(df.len - 1)
        IN  /\ Emitted("BUY", "MEDIUM", "RSI") <=> FloatLT(rsi, Num(30))
            /\ Emitted("BUY", "WEAK", "RSI")
                 <=> Between(rsi, 30, 40) /\ FloatLT(previous, Num(30))
            /\ Emitted("SELL", "MEDIUM", "RSI") <=> FloatGT(rsi, Num(70))
            /\ Emitted("SELL", "WEAK", "RSI")
                 <=> Between(rsi, 60, 70) /\ FloatGT(previous, Num(70))
            /\ Cardinality(SignalsOf("RSI")) <= 1
            /\ \A i \in SignalsOf("RSI") :
                  /\ signals.signals[i].type \in {"BUY", "SELL"}
                  /\ signals.signals[i].strength \in {"MEDIUM", "WEAK"}

\* C25: the MACD rule emits BUY STRONG iff MACD is above its signal line now and
\* was at or below it at the previous point; otherwise BUY WEAK iff the histogram
\* is higher than at the previous point while MACD and signal line are both
\* positive; SELL STRONG and SELL WEAK under the mirror conditions (cross below;
\* histogram falling while both are negative).
C25_MACDRuleByCrossAndHistogram ==
    RulesApplied =>
        LET latest    == df.latest
            previous  == df.previous
            crossUp   == /\ FloatGT(latest.MACD, latest.MACD_Signal)
                         /\ FloatLE(previous.MACD, previous.MACD_Signal)
            crossDown == /\ FloatLT(latest.MACD, latest.MACD_Signal)
                         /\ FloatGE(previous.MACD, previous.MACD_Signal)
            rising    == /\ FloatGT(latest.MACD_Histogram, previous.MACD_Histogram)
                         /\ FloatGT(latest.MACD, Num(0))
                         /\ FloatGT(latest.MACD_Signal, Num(0))
            falling   == /\ FloatLT(latest.MACD_Histogram, previous.MACD_Histogram)
                         /\ FloatLT(latest.MACD, Num(0))
                         /\ FloatLT(latest.MACD_Signal, Num(0))
        IN  /\ Emitted("BUY", "STRONG", "MACD") <=> crossUp
            /\ Emitted("SELL", "STRONG", "MACD") <=> crossDown
            /\ Emitted("BUY", "WEAK", "MACD") <=> ~crossUp /\ ~crossDown /\ rising
            /\ Emitted("SELL", "WEAK", "MACD") <=> ~crossUp /\ ~crossDown /\ falling
            /\ Cardinality(SignalsOf("MACD")) <= 1

\* C25, amended: as above, but a weak signal also needs the histogram on the side
\* of its move: BUY WEAK iff there is no cross and the histogram is positive and
\* higher than at the previous point while MACD and signal line are both positive;
\* SELL WEAK iff there is no cross and the histogram is negative and lower than at
\* the previous point while both are negative.
C25_WeakOnTheHistogramSide ==
    RulesApplied =>
        LET latest    == df.latest
            previous  == df.previous
            crossUp   == /\ FloatGT(latest.MACD, latest.MACD_Signal)
                         /\ FloatLE(previous.MACD, previous.MACD_Signal)
            crossDown == /\ FloatLT(latest.MACD, latest.MACD_Signal)
                         /\ FloatGE(previous.MACD, previous.MACD_Signal)
            rising    == /\ FloatGT(latest.MACD_Histogram, previous.MACD_Histogram)
                         /\ FloatGT(latest.MACD_Histogram, Num(0))
                         /\ FloatGT(latest.MACD, Num(0))
                         /\ FloatGT(latest.MACD_Signal, Num(0))
            falling   == /\ FloatLT(latest.MACD_Histogram, previous.MACD_Histogram)
                         /\ FloatLT(latest.MACD_Histogram, Num(0))
                         /\ FloatLT(latest.MACD, Num(0))
                         /\ FloatLT(latest.MACD_Signal, Num(0))
        IN  /\ Emitted("BUY", "STRONG", "MACD") <=> crossUp
            /\ Emitted("SELL", "STRONG", "MACD") <=> crossDown
            /\ Emitted("BUY", "WEAK", "MACD") <=> ~crossUp /\ ~crossDown /\ rising
            /\ Emitted("SELL", "WEAK", "MACD") <=> ~crossUp /\ ~crossDown /\ falling
            /\ Cardinality(SignalsOf("MACD")) <= 1

\* MACD and signal line are positive and the histogram has risen while staying
\* below zero, and the rule has emitted nothing
C25_Witness ==
    /\ RulesApplied
    /\ FloatGT(df.latest.MACD, Num(0))
    /\ FloatGT(df.latest.MACD_Signal, Num(0))
    /\ FloatLT(df.latest.MACD_Histogram, Num(0))
    /\ FloatGT(df.latest.MACD_Histogram, df.previous.MACD_Histogram)
    /\ SignalsOf("MACD") = {}

BandsDefined == ~IsNaN(df.latest.BB_Upper) /\ ~IsNaN(df.latest.BB_Lower)

AtOrBelowLower == BandGE(df.latest.BB_Lower, df.latest.price)
AtOrAboveUpper == BandLE(df.latest.BB_Upper, df.latest.price)

\* C26: whenever the Bollinger bands are defined, the Bollinger rule emits BUY
\* MEDIUM if the current price is at or below the lower band and SELL MEDIUM if it
\* is at or above the upper band, also for a zero-width band (constant prices over
\* the window), where the price equals both bands.
C26_BollingerAtEitherBand ==
    (RulesApplied /\ BandsDefined) =>
        /\ AtOrBelowLower => Emitted("BUY", "MEDIUM", "Bollinger Bands")
        /\ AtOrAboveUpper => Emitted("SELL", "MEDIUM", "Bollinger Bands")

\* C26, amended: whenever the Bollinger bands are defined, the rule emits BUY
\* MEDIUM if the current price is at or below the lower band, and SELL MEDIUM if
\* it is at or above the upper band and above the lower one; for a zero-width
\* band, where the price equals both bands, BUY MEDIUM is the only Bollinger
\* signal.
C26_BollingerLowerBandFirst ==
    (RulesApplied /\ BandsDefined) =>
        /\ AtOrBelowLower => Emitted("BUY", "MEDIUM", "Bollinger Bands")
        /\ (AtOrAboveUpper /\ ~AtOrBelowLower)
              => Emitted("SELL", "MEDIUM", "Bollinger Bands")
        /\ (AtOrAboveUpper /\ AtOrBelowLower) =>
              \A i \in SignalsOf("Bollinger Bands") :
                  signals.signals[i] = Signal("BUY", "MEDIUM", "Bollinger Bands")

\* constant prices over the window: the price equals both bands and the BUY was
\* emitted
C26_Witness ==
    /\ RulesApplied
    /\ BandsDefined
    /\ AtOrAboveUpper
    /\ AtOrBelowLower
    /\ Emitted("BUY", "MEDIUM", "Bollinger Bands")

\* the percent change of the latest price against the price `back` samples
\* before it, as the report shows it
PercentChangeOver(back) ==
    LET prices == sig_data.prices
        n      == Len(prices)
    IN  Round(FloatMul(FloatSub(FloatDiv(prices[n], prices[n - back]), Num(1)),
                       Num(100)), 2)

\* C27: the 24h price change is the percent change of the latest price against
\* the price 24 samples before the latest point, the 7d change against the price
\* 168 samples before it; each is null exactly when the series is too short to
\* hold that earlier point (fewer than 25, respectively 169, points).
C27_ChangeAgainstPointNSamplesBack ==
    ReportBuilt =>
        LET n == df.len
        IN  /\ IsNull(signals.price_changes.h24) <=> n < 25
            /\ n >= 25 => signals.price_changes.h24 = PercentChangeOver(24)
            /\ IsNull(signals.price_changes.d7) <=> n < 169
            /\ n >= 169 => signals.price_changes.d7 = PercentChangeOver(168)

\* no price of the last `period` deltas is below the one before it
NonDecreasingWindow(period) ==
    LET prices == sig_data.prices
        n      == Len(prices)
    IN  /\ n > period
        /\ \A t \in (n - period + 1)..n : ~FloatLT(prices[t], prices[t - 1])

\* C28: when the average loss over the 14-delta lookback window is 0, that is for
\* every monotonically non-decreasing price window, a constant one included, the
\* computed RSI is 100: it is not NaN, not infinite, and not null in the report.
C28_NoLossGivesRSI100 ==
    (ReportBuilt /\ NonDecreasingWindow(14)) =>
        /\ ComputedRSI(df.len) = Num(100)
        /\ signals.indicators.RSI = Num(100)

\* the indicator groups, in the order their rules are applied
IndicatorGroups == <<"SMA Crossover", "RSI", "MACD", "Bollinger Bands", "Volume">>

GroupRank(indicator) == CHOOSE k \in DOMAIN IndicatorGroups : IndicatorGroups[k] = indicator

\* C29: in every report the signal list holds at most one signal per indicator
\* group (SMA Crossover, RSI, MACD, Bollinger Bands, Volume), hence at most five
\* rule signals, always in that order; a 'Combined Analysis' fallback signal only
\* ever appears as the sole element of the list.
C29_OneSignalPerGroupInOrder ==
    RulesApplied =>
        LET list  == signals.signals
            rules == {i \in DOMAIN list : ~IsFallback(list[i])}
        IN  /\ \A i \in rules : \E k \in DOMAIN IndicatorGroups :
                  list[i].indicator = IndicatorGroups[k]
            /\ \A k \in DOMAIN IndicatorGroups :
                  Cardinality(SignalsOf(IndicatorGroups[k])) <= 1
            /\ Cardinality(rules) <= 5
            /\ \A i, j \in rules :
                  i < j => GroupRank(list[i].indicator) < GroupRank(list[j].indicator)
            /\ SignalsWhere(IsFallback) # {} => Len(list) = 1

\* a report with the signals of four groups, in the order of the rules
C29_Witness ==
    /\ RulesApplied
    /\ Len(signals.signals) = 4
    /\ signals.signals[1].indicator = "SMA Crossover"
    /\ signals.signals[2].indicator = "MACD"
    /\ signals.signals[3].indicator = "Bollinger Bands"
    /\ signals.signals[4].indicator = "Volume"

-----------------------------------------------------------------------------
(* The chat input of one UI session, checked under SpecUI *)

AcceptedPrompts == SelectSeq(ui_log, LAMBDA e : e.accepted)

\* the accepted prompts submitted before prompt i and less than RateWindow seconds
\* before it
AcceptedShortlyBefore(i) ==
    {j \in 1..(i - 1) : ui_log[j].accepted /\ ui_log[i].at - ui_log[j].at < RateWindow}

\* C30, its first half: at most 5 prompts submitted within 60 seconds of one
\* another are forwarded to the router: a prompt submitted while 5 accepted
\* prompts lie less than 60 seconds in the past is rejected; a rejected prompt is
\* not recorded as a request, not appended to the message list, not routed and not
\* stored.
RejectedLeavesNoTrace ==
    /\ \A i \in DOMAIN ui_log :
          Cardinality(AcceptedShortlyBefore(i)) >= RateLimit => ~ui_log[i].accepted
    /\ "last_requests" \in DOMAIN session_state =>
          \A k \in DOMAIN session_state.last_requests :
              \E i \in DOMAIN ui_log :
                  ui_log[i].accepted /\ ui_log[i].at = session_state.last_requests[k]
    /\ "last_requests" \in DOMAIN session_state =>
          Len(session_state.last_requests) <= Len(AcceptedPrompts)
    /\ SelectSeq(session_state.messages, LAMBDA m : m.role = "user")
          = [k \in DOMAIN AcceptedPrompts |-> Message("user", AcceptedPrompts[k].prompt)]
    /\ Len(router_inputs) = Len(AcceptedPrompts)
    /\ Len(stored_chats) <= Len(AcceptedPrompts)

\* C30, its second half: the router is handed at most the last 10 messages, ending
\* with the prompt
RouterGetsLastMessages ==
    \A k \in DOMAIN router_inputs :
        /\ Len(router_inputs[k]) <= HistoryLimit
        /\ router_inputs[k] # <<>>
        /\ router_inputs[k][Len(router_inputs[k])]
              = Message("user", AcceptedPrompts[k].prompt)

\* C30, its second half: every accepted prompt has appended one user message
\* followed by one assistant message
EachPromptAnswered ==
    ui_pc = "waiting" =>
        /\ Len(session_state.messages) = 2 * Len(AcceptedPrompts)
        /\ \A k \in DOMAIN AcceptedPrompts :
              /\ session_state.messages[2 * k - 1]
                    = Message("user", AcceptedPrompts[k].prompt)
              /\ session_state.messages[2 * k].role = "assistant"

\* C30: within one UI session at most 5 prompts whose submission times lie within
\* any 60-second window are forwarded to the router; a rejected prompt is not
\* recorded as a request, not appended to the message list, not routed and not
\* persisted; every accepted prompt appends exactly one user message followed by
\* exactly one assistant message and hands the router at most the last 10 messages
\* ending with that prompt.
C30_RateLimitedChatInput ==
    /\ RejectedLeavesNoTrace
    /\ RouterGetsLastMessages
    /\ EachPromptAnswered

====
